---- MODULE Spec2Model ----
(***************************************************************************)
(* Address Manager Pro: the Excel/CSV import pipeline (lib/excel.ts), the  *)
(* duplicate checker, the value coercers, the CSV export projection and    *)
(* the owner of the record collection (AddressManager component).          *)
(*                                                                         *)
(* Texts are sequences of one-character strings, so that trimming,         *)
(* normalising, formatting and parsing are computed character by           *)
(* character, as the code does.  A cell is absent (the column is not in    *)
(* the row's DOMAIN), a string [t |-> "s", s |-> <<chars>>], a number      *)
(* [t |-> "n", m |-> thousandths] or a boolean [t |-> "b", b |-> BOOLEAN]. *)
(* Numbers with a fractional part are kept in thousandths (fixed point,    *)
(* three decimal digits): 12.5 is 12500, 1.234 is 1234.                    *)
(***************************************************************************)
EXTENDS Integers, Sequences, FiniteSets, TLC

\* Op applied to the value of e.  TLC evaluates the definitions of a LET and
\* the arguments of an operator anew at each use; With evaluates e once.
With(e, Op(_)) == CHOOSE r \in { Op(x) : x \in {e} } : TRUE

(***************************************************************************)
(* Characters and strings                                                  *)
(***************************************************************************)

\* Characters matched by the regular expression class \s and removed by trim().
WhiteSpace == {" ", "\t"}

Digits == <<"0", "1", "2", "3", "4", "5", "6", "7", "8", "9">>

UpperCase ==
  <<"A", "B", "C", "D", "E", "F", "G", "H", "I", "J", "K", "L", "M",
    "N", "O", "P", "Q", "R", "S", "T", "U", "V", "W", "X", "Y", "Z">>

LowerCase ==
  <<"a", "b", "c", "d", "e", "f", "g", "h", "i", "j", "k", "l", "m",
    "n", "o", "p", "q", "r", "s", "t", "u", "v", "w", "x", "y", "z">>

IsDigit(c) == \E i \in 1..10 : Digits[i] = c

DigitValue(c) == (CHOOSE i \in 1..10 : Digits[i] = c) - 1

\* String.prototype.toLowerCase, one character.
toLowerCaseChar(c) ==
  IF \E i \in 1..26 : UpperCase[i] = c
    THEN LowerCase[CHOOSE i \in 1..26 : UpperCase[i] = c]
    ELSE c

\* String.prototype.normalize('NFKC'), one character: compatibility
\* characters are replaced by their plain form, every other character of
\* the model's alphabet is already in normal form.
normalizeNFKCChar(c) ==
  CASE c = "²" -> "2"
    [] c = "ª" -> "a"
    [] OTHER -> c

MapChars(Op(_), s) == [i \in 1..Len(s) |-> Op(s[i])]

RECURSIVE trimStart(_)
trimStart(s) ==
  IF s # <<>> /\ Head(s) \in WhiteSpace THEN trimStart(Tail(s)) ELSE s

RECURSIVE trimEnd(_)
trimEnd(s) ==
  IF s # <<>> /\ s[Len(s)] \in WhiteSpace
    THEN trimEnd(SubSeq(s, 1, Len(s) - 1))
    ELSE s

\* String.prototype.trim
trim(s) == trimEnd(trimStart(s))

\* s.replace(/\s/g, '')
removeWhiteSpace(s) == SelectSeq(s, LAMBDA c : c \notin WhiteSpace)

\* s.replace(/\s+/g, ' '): every maximal run of white space becomes one space.
RECURSIVE collapseWhiteSpace(_)
collapseWhiteSpace(s) ==
  IF s = <<>> THEN <<>>
  ELSE IF Head(s) \in WhiteSpace
    THEN <<" ">> \o collapseWhiteSpace(trimStart(s))
    ELSE <<Head(s)>> \o collapseWhiteSpace(Tail(s))

\* The character class [.,;:()] of normalizeAddressKey.
KeyPunctuation == {".", ",", ";", ":", "(", ")"}

\* s.replace(/[.,;:()]/g, '')
stripPunctuation(s) == SelectSeq(s, LAMBDA c : c \notin KeyPunctuation)

\* Generate a stable, simple normalization key for duplicate detection.
normalizeAddressKey(s) ==
  trim(stripPunctuation(collapseWhiteSpace(
    MapChars(toLowerCaseChar, MapChars(normalizeNFKCChar, s)))))

(***************************************************************************)
(* Cells and numbers                                                       *)
(***************************************************************************)

\* The value of a missing property: undefined.
Absent == [t |-> "u"]

Str(s) == [t |-> "s", s |-> s]

\* The m of a native number that is not finite: NaN (the infinities take
\* the same way through the coercers).  No finite number of the model is
\* that small.
NonFiniteNumber == -2147483647

\* Number.isFinite(x) for a number of the model.
IsFiniteNumber(x) == x # NonFiniteNumber

\* A native number, in thousandths.
Num(m) == [t |-> "n", m |-> m]

Bool(b) == [t |-> "b", b |-> b]

\* row[name]
Cell(row, name) == IF name \in DOMAIN row THEN row[name] ELSE Absent

RECURSIVE NatToString(_)
NatToString(n) ==
  IF n < 10 THEN <<Digits[n + 1]>>
  ELSE NatToString(n \div 10) \o <<Digits[(n % 10) + 1]>>

\* The fractional digits of f thousandths (0 < f < 1000), without trailing zeros.
FractionToString(f) ==
  IF f % 100 = 0 THEN <<Digits[(f \div 100) + 1]>>
  ELSE IF f % 10 = 0 THEN <<Digits[(f \div 100) + 1], Digits[((f \div 10) % 10) + 1]>>
  ELSE <<Digits[(f \div 100) + 1], Digits[((f \div 10) % 10) + 1], Digits[(f % 10) + 1]>>

\* String(number) for a number given in thousandths.
NumberToString(m) ==
  LET a == IF m < 0 THEN -m ELSE m
      whole == NatToString(a \div 1000)
      body == IF a % 1000 = 0 THEN whole
              ELSE whole \o <<".">> \o FractionToString(a % 1000)
  IN IF ~IsFiniteNumber(m) THEN <<"N", "a", "N">>
     ELSE IF m < 0 THEN <<"-">> \o body ELSE body

\* String(v) for a cell value that is not undefined.
String(v) ==
  CASE v.t = "s" -> v.s
    [] v.t = "n" -> NumberToString(v.m)
    [] v.t = "b" -> IF v.b THEN <<"t", "r", "u", "e">> ELSE <<"f", "a", "l", "s", "e">>

\* s.replace(/\.(?=\d{3}(\D|$))/g, ''): a dot followed by exactly three
\* digits and then a non-digit or the end is a thousands separator.
IsThousandsDot(s, i) ==
  /\ s[i] = "."
  /\ i + 3 <= Len(s)
  /\ \A k \in 1..3 : IsDigit(s[i + k])
  /\ (i + 4 > Len(s) \/ ~IsDigit(s[i + 4]))

RECURSIVE removeThousandsDots(_, _)
removeThousandsDots(s, i) ==
  IF i > Len(s) THEN <<>>
  ELSE (IF IsThousandsDot(s, i) THEN <<>> ELSE <<s[i]>>) \o removeThousandsDots(s, i + 1)

\* s.replace(',', '.'): the first comma only.
replaceFirstComma(s) ==
  IF \E i \in 1..Len(s) : s[i] = ","
    THEN LET i == CHOOSE j \in 1..Len(s) : s[j] = "," /\ \A k \in 1..(j - 1) : s[k] # ","
         IN [s EXCEPT ![i] = "."]
    ELSE s

\* Normalize numbers that might contain thousand separators and commas.
normalizeNumberLike(value) ==
  LET s == trim(IF value = Absent THEN <<>> ELSE String(value))
  IN replaceFirstComma(removeThousandsDots(removeWhiteSpace(s), 1))

\* The longest prefix of s made of digits.
RECURSIVE digitPrefix(_)
digitPrefix(s) ==
  IF s # <<>> /\ IsDigit(Head(s)) THEN <<Head(s)>> \o digitPrefix(Tail(s)) ELSE <<>>

RECURSIVE digitsToNat(_, _)
digitsToNat(ds, acc) ==
  IF ds = <<>> THEN acc ELSE digitsToNat(Tail(ds), acc * 10 + DigitValue(Head(ds)))

\* A parse result: a finite number, or NaN.
NaN == [finite |-> FALSE, v |-> 0]

Finite(v) == [finite |-> TRUE, v |-> v]

HasSign(s) == s # <<>> /\ Head(s) \in {"-", "+"}

Unsigned(s) == IF HasSign(s) THEN Tail(s) ELSE s

Signed(s, v) == IF s # <<>> /\ Head(s) = "-" THEN -v ELSE v

\* parseInt(key, 10) for a key without white space: an optional sign and the
\* leading digits; NaN when there is no digit.  The result is an integer.
parseInt(key) ==
  LET ds == digitPrefix(Unsigned(key))
  IN IF ds = <<>> THEN NaN ELSE Finite(Signed(key, digitsToNat(ds, 0)))

\* The first three fractional digits as thousandths.
fractionValue(fs) ==
  LET d(i) == IF i <= Len(fs) THEN DigitValue(fs[i]) ELSE 0
  IN d(1) * 100 + d(2) * 10 + d(3)

\* parseFloat(key) for a key without white space: an optional sign, digits,
\* an optional fraction; NaN when no number starts the text (the text
\* "Infinity" parses to an infinity, which is no finite number either).  The
\* result is in thousandths; exponents are not read.
parseFloat(key) ==
  LET body == Unsigned(key)
      ds == digitPrefix(body)
      rest == SubSeq(body, Len(ds) + 1, Len(body))
      fs == IF rest # <<>> /\ Head(rest) = "." THEN digitPrefix(Tail(rest)) ELSE <<>>
  IN IF ds = <<>> /\ fs = <<>> THEN NaN
     ELSE Finite(Signed(key, digitsToNat(ds, 0) * 1000 + fractionValue(fs)))

\* Math.trunc of a number in thousandths, as an integer.
truncThousandths(m) == IF m < 0 THEN -((-m) \div 1000) ELSE m \div 1000

safeParseIntUnchecked(value, fallback, cache) ==
  IF value.t = "n" /\ IsFiniteNumber(value.m)
    THEN [out |-> truncThousandths(value.m), cache |-> cache]
  ELSE With(normalizeNumberLike(value), LAMBDA key :
         IF key = <<>> THEN [out |-> fallback, cache |-> cache]
         ELSE IF key \in DOMAIN cache THEN [out |-> cache[key], cache |-> cache]
         ELSE With(parseInt(key), LAMBDA parsed :
                LET out == IF parsed.finite THEN parsed.v ELSE NonFiniteNumber
                IN [out |-> out, cache |-> (key :> out) @@ cache]))

\* safeParseInt(value, fallback) with the memoizing cache: the result and
\* the cache after the call.
safeParseInt(value, fallback, cache) ==
  IF value.t = "n" /\ IsFiniteNumber(value.m)
    THEN [out |-> truncThousandths(value.m), cache |-> cache]
  ELSE With(normalizeNumberLike(value), LAMBDA key :
         IF key = <<>> THEN [out |-> fallback, cache |-> cache]
         ELSE IF key \in DOMAIN cache THEN [out |-> cache[key], cache |-> cache]
         ELSE With(parseInt(key), LAMBDA parsed :
                LET out == IF parsed.finite THEN parsed.v ELSE fallback
                IN [out |-> out, cache |-> (key :> out) @@ cache]))

safeParseFloatTruncating(value, fallback, cache) ==
  IF value.t = "n" /\ IsFiniteNumber(value.m)
    THEN [out |-> truncThousandths(value.m) * 1000, cache |-> cache]
  ELSE With(normalizeNumberLike(value), LAMBDA key :
         IF key = <<>> THEN [out |-> fallback, cache |-> cache]
         ELSE IF key \in DOMAIN cache THEN [out |-> cache[key], cache |-> cache]
         ELSE With(parseFloat(key), LAMBDA parsed :
                LET out == IF parsed.finite THEN parsed.v ELSE fallback
                IN [out |-> out, cache |-> (key :> out) @@ cache]))

\* safeParseFloat(value, fallback) with the memoizing cache; numbers are in
\* thousandths.
safeParseFloat(value, fallback, cache) ==
  IF value.t = "n" /\ IsFiniteNumber(value.m) THEN [out |-> value.m, cache |-> cache]
  ELSE With(normalizeNumberLike(value), LAMBDA key :
         IF key = <<>> THEN [out |-> fallback, cache |-> cache]
         ELSE IF key \in DOMAIN cache THEN [out |-> cache[key], cache |-> cache]
         ELSE With(parseFloat(key), LAMBDA parsed :
                LET out == IF parsed.finite THEN parsed.v ELSE fallback
                IN [out |-> out, cache |-> (key :> out) @@ cache]))

TruthyTokens ==
  { <<"y", "e", "s">>, <<"t", "r", "u", "e">>, <<"1">>, <<"j", "a">>, <<"y">>, <<"x">> }

safeParseBoolean(value) ==
  IF value.t = "b" THEN value.b
  ELSE LET s == MapChars(toLowerCaseChar, trim(IF value = Absent THEN <<>> ELSE String(value)))
       IN s \in TruthyTokens

(***************************************************************************)
(* Field name mapping                                                      *)
(***************************************************************************)

FIELD_MAPPINGS ==
  [ address |-> <<"Adresse", "Address">>,
    addressCode |-> <<"adrcd-subcd", "ID">>,
    region |-> <<"Region">>,
    ano |-> <<"ANO", "Provider">>,
    status |-> <<"Status">>,
    homes |-> <<"Anzahl der Homes", "Homes">>,
    contractStatus |-> <<"Vertrag auf Adresse vorhanden oder L1-Angebot gesendet", "Contract">>,
    price |-> <<"Preis Standardprodukt (€)", "Price">>,
    provisionCategory |-> <<"Provisions-Kategorie">>,
    buildingCompany |-> <<"Baufirma">>,
    kgNumber |-> <<"KG Nummer">>,
    completionPlanned |-> <<"Fertigstellung Bau (aktueller Plan)">>,
    completionDone |-> <<"Fertigstellung Bau erfolgt">>,
    d2dStart |-> <<"D2D-Vertrieb Start">>,
    d2dEnd |-> <<"D2D-Vertrieb Ende">>,
    outdoorFee |-> <<"Outdoor-Pauschale vorhanden">>,
    notes |-> <<"Notes">> ]

RECURSIVE getFieldValueOfFirstPresent(_, _)
getFieldValueOfFirstPresent(row, fieldNames) ==
  IF fieldNames = <<>> THEN <<>>
  ELSE LET v == Cell(row, Head(fieldNames))
       IN IF v # Absent THEN String(v)
          ELSE getFieldValueOfFirstPresent(row, Tail(fieldNames))

\* The first alias, in list order, whose cell is present and non-blank.
RECURSIVE getFieldValue(_, _)
getFieldValue(row, fieldNames) ==
  IF fieldNames = <<>> THEN <<>>
  ELSE LET v == Cell(row, Head(fieldNames))
       IN IF v # Absent /\ trim(String(v)) # <<>> THEN String(v)
          ELSE getFieldValue(row, Tail(fieldNames))

\* a ?? b
Coalesce(a, b) == IF a # Absent THEN a ELSE b

(***************************************************************************)
(* Row -> Address                                                          *)
(***************************************************************************)

\* createAddress(row, id) with the two parse caches: the record and the
\* caches after the call.  The customer tracking fields are left undefined.
createAddress(row, id, intCache, floatCache) ==
  LET homesRaw == Coalesce(Cell(row, FIELD_MAPPINGS.homes[1]), Cell(row, FIELD_MAPPINGS.homes[2]))
      contractRaw == Coalesce(Cell(row, FIELD_MAPPINGS.contractStatus[1]),
                              Cell(row, FIELD_MAPPINGS.contractStatus[2]))
      priceRaw == Coalesce(Cell(row, FIELD_MAPPINGS.price[1]), Cell(row, FIELD_MAPPINGS.price[2]))
      doneRaw == Coalesce(Cell(row, FIELD_MAPPINGS.completionDone[1]), Bool(FALSE))
  IN With(safeParseInt(homesRaw, 0, intCache), LAMBDA homes :
     With(safeParseInt(contractRaw, 0, homes.cache), LAMBDA contract :
     With(safeParseFloat(priceRaw, 0, floatCache), LAMBDA price :
     [ address |->
         [ id |-> id,
           addressCode |-> getFieldValue(row, FIELD_MAPPINGS.addressCode),
           address |-> getFieldValue(row, FIELD_MAPPINGS.address),
           region |-> getFieldValue(row, FIELD_MAPPINGS.region),
           ano |-> getFieldValue(row, FIELD_MAPPINGS.ano),
           status |-> getFieldValue(row, FIELD_MAPPINGS.status),
           homes |-> homes.out,
           contractStatus |-> contract.out,
           price |-> price.out,
           provisionCategory |-> getFieldValue(row, FIELD_MAPPINGS.provisionCategory),
           buildingCompany |-> getFieldValue(row, FIELD_MAPPINGS.buildingCompany),
           kgNumber |-> getFieldValue(row, FIELD_MAPPINGS.kgNumber),
           completionPlanned |-> getFieldValue(row, FIELD_MAPPINGS.completionPlanned),
           completionDone |-> safeParseBoolean(doneRaw),
           d2dStart |-> getFieldValue(row, FIELD_MAPPINGS.d2dStart),
           d2dEnd |-> getFieldValue(row, FIELD_MAPPINGS.d2dEnd),
           outdoorFee |-> getFieldValue(row, FIELD_MAPPINGS.outdoorFee),
           notes |-> getFieldValue(row, FIELD_MAPPINGS.notes),
           imported |-> TRUE,
           customerMet |-> Absent,
           appointmentSet |-> Absent,
           contractSigned |-> Absent,
           objectAvailable |-> Absent ],
       intCache |-> contract.cache,
       floatCache |-> price.cache ])))

(***************************************************************************)
(* Duplicate detection                                                     *)
(***************************************************************************)

\* createDuplicateChecker: the keys of the records already in the collection.
existingKeysForgotten(existingRecords) == {}

existingKeysOf(existingRecords) ==
  { normalizeAddressKey(existingRecords[k].address) : k \in 1..Len(existingRecords) }

isDuplicateOfExistingOnly(existingKeys, batch, addr) ==
  With(normalizeAddressKey(addr), LAMBDA key : key \in existingKeys)

isDuplicateInBatchOnly(existingKeys, batch, addr) ==
  With(normalizeAddressKey(addr), LAMBDA key : key \in batch)

isDuplicate(existingKeys, batch, addr) ==
  With(normalizeAddressKey(addr), LAMBDA key : key \in existingKeys \/ key \in batch)

addReplacesBatch(batch, addr) == { normalizeAddressKey(addr) }

\* batchKeys.add(normalizeAddressKey(addr))
add(batch, addr) == batch \cup { normalizeAddressKey(addr) }

(***************************************************************************)
(* Import: the work of one file task between two suspension points         *)
(***************************************************************************)

\* const CHUNK_SIZE = 100
CHUNK_SIZE == 100

\* if (i % (CHUNK_SIZE * 5) === 0) await new Promise(r => setTimeout(r, 0))
YIELD_CHUNKS == 5

\* const id = baseId + fileIndex * 1_000_000 + fileAddresses.length
FILE_STRIDE == 1000000

NextId(base, fileIndex, length) == base + fileIndex * FILE_STRIDE + length

BlankAddressKept(addressText) == FALSE

\* if (!addressText.trim()) continue
IsBlankAddress(addressText) == trim(addressText) = <<>>

\* The body of the row loop.  acc holds the task's accumulators and the
\* state shared by all tasks: the batch keys and the two parse caches.
ProcessRow(acc, row, existingKeys, base, fileIndex) ==
  With(getFieldValue(row, FIELD_MAPPINGS.address), LAMBDA addressText :
    IF IsBlankAddress(addressText) THEN acc
    ELSE IF isDuplicate(existingKeys, acc.batchKeys, addressText)
      THEN [acc EXCEPT !.fileDuplicates = @ + 1]
    ELSE LET id == NextId(base, fileIndex, Len(acc.fileAddresses))
         IN With(createAddress(row, id, acc.intCache, acc.floatCache), LAMBDA made :
              [ fileAddresses |-> Append(acc.fileAddresses, made.address),
                fileDuplicates |-> acc.fileDuplicates,
                batchKeys |-> add(acc.batchKeys, addressText),
                intCache |-> made.intCache,
                floatCache |-> made.floatCache ]))

\* for (let j = 0; j < chunk.length; j++) over chunk = rows.slice(i, i + CHUNK_SIZE):
\* the rows k with from <= k < to, in order, rows numbered from 0 as in the
\* code (rows[k] is the model's rows[k + 1]).  The range is split in halves
\* to keep the evaluation shallow; the rows are still handled one after the
\* other, each on the accumulators the one before it left.
RECURSIVE ProcessRows(_, _, _, _, _, _, _)
ProcessRows(acc, rows, from, to, existingKeys, base, fileIndex) ==
  IF from >= to THEN acc
  ELSE IF to = from + 1 THEN ProcessRow(acc, rows[from + 1], existingKeys, base, fileIndex)
  ELSE LET mid == (from + to) \div 2
       IN With(ProcessRows(acc, rows, from, mid, existingKeys, base, fileIndex), LAMBDA half :
            ProcessRows(half, rows, mid, to, existingKeys, base, fileIndex))

Min(a, b) == IF a <= b THEN a ELSE b

ProcessChunk(acc, rows, i, existingKeys, base, fileIndex) ==
  ProcessRows(acc, rows, i, Min(i + CHUNK_SIZE, Len(rows)), existingKeys, base, fileIndex)

\* Whether the chunk that starts at row i is followed by a suspension point.
YieldsAfterChunk(i) == i % (CHUNK_SIZE * YIELD_CHUNKS) = 0

\* The chunk loop from index i up to the next suspension point or the end of
\* the rows: the accumulators, the loop index and whether the task is
\* suspended on the timer (then the loop resumes with i + CHUNK_SIZE).
RECURSIVE RunLoop(_, _, _, _, _, _)
RunLoop(acc, rows, i, existingKeys, base, fileIndex) ==
  IF i >= Len(rows) THEN [acc |-> acc, i |-> i, suspended |-> FALSE]
  ELSE With(ProcessChunk(acc, rows, i, existingKeys, base, fileIndex),
            LAMBDA after :
              IF YieldsAfterChunk(i) THEN [acc |-> after, i |-> i, suspended |-> TRUE]
              ELSE RunLoop(after, rows, i + CHUNK_SIZE, existingKeys, base, fileIndex))

(***************************************************************************)
(* Export                                                                  *)
(***************************************************************************)

\* The keys of one exported row, in the order of the object literal.
EXPORT_COLUMNS ==
  << "adrcd-subcd", "Adresse", "Region", "ANO", "Status", "Anzahl der Homes",
     "Vertrag auf Adresse vorhanden oder L1-Angebot gesendet", "Preis Standardprodukt (€)",
     "Provisions-Kategorie", "Baufirma", "KG Nummer", "Fertigstellung Bau (aktueller Plan)",
     "Fertigstellung Bau erfolgt", "D2D-Vertrieb Start", "D2D-Vertrieb Ende",
     "Outdoor-Pauschale vorhanden", "Notes" >>

\* text || '' for an optional text field.
OrEmpty(v) == IF v = Absent THEN Str(<<>>) ELSE Str(v)

\* The row exportCSVWeb builds for record a: data[i + j] = { ... }.  The
\* integer fields are written as numbers, the price as it is.
exportRow(a) ==
  ("adrcd-subcd" :> Str(a.addressCode))
  @@ ("Adresse" :> Str(a.address))
  @@ ("Region" :> Str(a.region))
  @@ ("ANO" :> Str(a.ano))
  @@ ("Status" :> Str(a.status))
  @@ ("Anzahl der Homes" :> Num(a.homes * 1000))
  @@ ("Vertrag auf Adresse vorhanden oder L1-Angebot gesendet" :> Num(a.contractStatus * 1000))
  @@ ("Preis Standardprodukt (€)" :> Num(a.price))
  @@ ("Provisions-Kategorie" :> Str(a.provisionCategory))
  @@ ("Baufirma" :> Str(a.buildingCompany))
  @@ ("KG Nummer" :> Str(a.kgNumber))
  @@ ("Fertigstellung Bau (aktueller Plan)" :> Str(a.completionPlanned))
  @@ ("Fertigstellung Bau erfolgt" :> Str(IF a.completionDone THEN <<"Y", "e", "s">> ELSE <<>>))
  @@ ("D2D-Vertrieb Start" :> Str(a.d2dStart))
  @@ ("D2D-Vertrieb Ende" :> Str(a.d2dEnd))
  @@ ("Outdoor-Pauschale vorhanden" :> Str(a.outdoorFee))
  @@ ("Notes" :> Str(a.notes))

\* The data array of exportCSVWeb: one row per record, in collection order.
exportData(records) == [k \in 1..Len(records) |-> exportRow(records[k])]

\* n || 0 for a number: 0 for 0 and for NaN, else n.
OrZero(n) == IF n = 0 \/ ~IsFiniteNumber(n) THEN 0 ELSE n

\* The row of the other copy of exportCSVWeb, which writes the numeric
\* fields as address.homes || 0.
exportRowOrZero(a) ==
  [c \in DOMAIN exportRow(a) |->
     IF c = "Anzahl der Homes" THEN Num(OrZero(a.homes) * 1000)
     ELSE IF c = "Vertrag auf Adresse vorhanden oder L1-Angebot gesendet"
       THEN Num(OrZero(a.contractStatus) * 1000)
     ELSE IF c = "Preis Standardprodukt (€)" THEN Num(OrZero(a.price))
     ELSE exportRow(a)[c]]

\* The keys of one row of the native exporter, in the order of its object
\* literal.
NATIVE_COLUMNS ==
  << "adrcd-subcd", "Adresse", "Region", "ANO", "Status", "Anzahl der Homes",
     "Vertrag auf Adresse vorhanden oder L1-Angebot gesendet", "Preis Standardprodukt (€)",
     "Provisions-Kategorie", "Baufirma", "KG Nummer", "Fertigstellung Bau (aktueller Plan)",
     "Fertigstellung Bau erfolgt", "D2D-Vertrieb Start", "D2D-Vertrieb Ende",
     "Outdoor-Pauschale vorhanden", "Notes" >>

nativeRowYesNo(a) ==
  [c \in DOMAIN exportRow(a) |->
     IF c = "Fertigstellung Bau erfolgt"
       THEN Str(IF a.completionDone THEN <<"Y", "e", "s">> ELSE <<"N", "o">>)
     ELSE exportRow(a)[c]]

\* The row transformAddressesToCSV builds for record a: out[i + j] = { ... }.
nativeRow(a) ==
  ("adrcd-subcd" :> Str(a.addressCode))
  @@ ("Adresse" :> Str(a.address))
  @@ ("Region" :> Str(a.region))
  @@ ("ANO" :> Str(a.ano))
  @@ ("Status" :> Str(a.status))
  @@ ("Anzahl der Homes" :> Num(a.homes * 1000))
  @@ ("Vertrag auf Adresse vorhanden oder L1-Angebot gesendet" :> Num(a.contractStatus * 1000))
  @@ ("Preis Standardprodukt (€)" :> Num(a.price))
  @@ ("Provisions-Kategorie" :> Str(a.provisionCategory))
  @@ ("Baufirma" :> Str(a.buildingCompany))
  @@ ("KG Nummer" :> Str(a.kgNumber))
  @@ ("Fertigstellung Bau (aktueller Plan)" :> Str(a.completionPlanned))
  @@ ("Fertigstellung Bau erfolgt" :> Str(IF a.completionDone THEN <<"Y", "e", "s">> ELSE <<>>))
  @@ ("D2D-Vertrieb Start" :> Str(a.d2dStart))
  @@ ("D2D-Vertrieb Ende" :> Str(a.d2dEnd))
  @@ ("Outdoor-Pauschale vorhanden" :> Str(a.outdoorFee))
  @@ ("Notes" :> Str(a.notes))

\* transformAddressesToCSV(addresses): one row per record, in order.
transformAddressesToCSV(records) == [k \in 1..Len(records) |-> nativeRow(records[k])]

\* The codec: XLSX.write(..., bookType 'csv') writes every cell as its text,
\* and XLSX.read with sheet_to_json(raw: false, defval: '') gives every cell
\* of the CSV file back as that text.
csvRows(data) ==
  [k \in 1..Len(data) |-> [c \in DOMAIN data[k] |-> Str(String(data[k][c]))]]

(***************************************************************************)
(* The files the user can choose                                           *)
(***************************************************************************)

TextHaupt1 == <<"H", "a", "u", "p", "t", "s", "t", "r", "a", "ß", "e", " ", "1", ",", " ", "4", "5", "4", "1", ",", " ", "A", "d", "l", "w", "a", "n", "g">>

TextHaupt2 == <<"h", "a", "u", "p", "t", "s", "t", "r", "a", "ß", "e", " ", " ", " ", "1", ",", "4", "5", "4", "1", ",", "a", "d", "l", "w", "a", "n", "g">>

TextA == <<"A", " ", "1">>

TextA2 == <<"a", " ", " ", "1">>

TextB == <<"B", " ", "2">>

TextBlank == <<" ", " ">>

\* The two rows of the documented scenario.
RowHaupt1 == "Adresse" :> Str(TextHaupt1)

RowHaupt2 == "Adresse" :> Str(TextHaupt2)

RowA ==
  ("Adresse" :> Str(TextA)) @@ ("Region" :> Str(<<"R">>))
  @@ ("Anzahl der Homes" :> Str(<<"1", ".", "2", "3", "4">>))
  @@ ("Preis Standardprodukt (€)" :> Str(<<"1", "2", ",", "5", "0">>))
  @@ ("Fertigstellung Bau erfolgt" :> Str(<<"J", "a">>))
  @@ ("Notes" :> Str(<<"n">>))

\* The address under the second alias, the primary columns blank.
RowA2 ==
  ("Adresse" :> Str(<<>>)) @@ ("Address" :> Str(TextA2))
  @@ ("Anzahl der Homes" :> Str(<<>>)) @@ ("Homes" :> Str(<<"7">>))
  @@ ("Price" :> Str(<<"3">>))

RowB ==
  ("Adresse" :> Str(TextB)) @@ ("Region" :> Str(<<"R">>))
  @@ ("Preis Standardprodukt (€)" :> Str(<<"1", ",", "2", "3", "4">>))

\* A row without address text (its other columns are not all blank).
RowBlank == ("Adresse" :> Str(TextBlank)) @@ ("Region" :> Str(<<"R">>))

\* A worksheet of three chunks: two chunks of rows without address text,
\* then two rows with one.
LongRows == [k \in 1..(2 * CHUNK_SIZE + 2) |->
               IF k <= 2 * CHUNK_SIZE THEN RowBlank
               ELSE IF k = 2 * CHUNK_SIZE + 1 THEN RowA2 ELSE RowB]

\* A file: whether file.arrayBuffer() and XLSX.read succeed, whether the
\* workbook has a first worksheet, and the rows sheet_to_json returns.
Files ==
  [ scenario |-> [readable |-> TRUE, sheet |-> TRUE, rows |-> <<RowHaupt1, RowHaupt2>>],
    a |-> [readable |-> TRUE, sheet |-> TRUE, rows |-> <<RowA, RowBlank, RowB>>],
    a2 |-> [readable |-> TRUE, sheet |-> TRUE, rows |-> <<RowA2>>],
    long |-> [readable |-> TRUE, sheet |-> TRUE, rows |-> LongRows],
    corrupt |-> [readable |-> FALSE, sheet |-> FALSE, rows |-> <<>>],
    nosheet |-> [readable |-> TRUE, sheet |-> FALSE, rows |-> <<>>],
    empty |-> [readable |-> TRUE, sheet |-> TRUE, rows |-> <<>>] ]

\* The file lists of one import (the input element accepts several files).
Selections ==
  { <<"scenario">>, <<"a">>, <<"a", "a2">>, <<"long", "a">>, <<"a", "corrupt">>,
    <<"nosheet", "empty", "a2">> }

\* Texts the user types into the note editor.
NoteTexts == { <<"o", "k">> }

\* The patches the row components pass to updateAddress: the note editor's
\* { notes: draft } and the tracking buttons' { [field]: value }.
Patches ==
  { "notes" :> t : t \in NoteTexts } \cup { "customerMet" :> Bool(TRUE) }

(***************************************************************************)
(* State                                                                   *)
(***************************************************************************)

\* Imports started and edits made in one behaviour.
MaxImports == 2

MaxEdits == 1

\* setTimeout(() => { setIsImporting(false); ... }, 500)
IMPORTING_OFF_DELAY == 500

\* The readings of Date.now() the model distinguishes, in milliseconds since
\* the first reading.
ClockReadings == {0, IMPORTING_OFF_DELAY, FILE_STRIDE, FILE_STRIDE + IMPORTING_OFF_DELAY}

NoTimer == -1

EmptyCache == [k \in {} |-> 0]

NoStats == [kind |-> "null"]

NoOutcome == [kind |-> "pending"]

NoDownload == [made |-> FALSE, from |-> <<>>, rows |-> <<>>]

NoIdCall == [baseId |-> 0, lengths |-> <<>>, runs |-> <<>>]

NoSave == [pc |-> "none"]

NoCall == [fn |-> "none"]

VARIABLES
  addresses,       \* useState<Address[]>([]): the in-memory collection
  importStats,     \* useState<ImportStats | null>(null)
  isImporting,     \* useState(false)
  offTimer,        \* when the timer that resets isImporting is due, or NoTimer
  now,             \* Date.now()
  callStatus,      \* the importExcelFiles call: "idle", "running", "resolved", "rejected"
  files,           \* its files argument (names of Files)
  existing,        \* its existing argument
  baseId,          \* const baseId = Date.now()
  batchKeys,       \* the duplicate checker's batchKeys
  outcome,         \* what the call's promise settled with
  tasks,           \* one task per file: pc, i, fileAddresses, fileDuplicates
  parseIntCache,   \* module-level Map
  parseFloatCache, \* module-level Map
  download,        \* the rows of the CSV file last exported, and the records exported
  nImports,        \* imports started
  nEdits,          \* edits made
  idCall,          \* the id assignment of one call: baseId, each file task's
                   \* fileAddresses.length, and the runs of ids given out
  save,            \* a saveDataToCSVNativeOrWeb call, its host and platformCache
  call             \* a call of one of the library's functions: arguments, result

vars ==
  << addresses, importStats, isImporting, offTimer, now, callStatus, files, existing,
     baseId, batchKeys, outcome, tasks, parseIntCache, parseFloatCache, download,
     nImports, nEdits, idCall, save, call >>

sideVars == << idCall, save, call >>

callVars == << files, existing, baseId >>

AppInit ==
  /\ addresses = <<>>
  /\ importStats = NoStats
  /\ isImporting = FALSE
  /\ offTimer = NoTimer
  /\ now = 0
  /\ callStatus = "idle"
  /\ files = <<>>
  /\ existing = <<>>
  /\ baseId = 0
  /\ batchKeys = {}
  /\ outcome = NoOutcome
  /\ tasks = <<>>
  /\ parseIntCache = EmptyCache
  /\ parseFloatCache = EmptyCache
  /\ download = NoDownload
  /\ nImports = 0
  /\ nEdits = 0

Init == AppInit /\ idCall = NoIdCall /\ save = NoSave /\ call = NoCall

(***************************************************************************)
(* Import: the call and its file tasks                                     *)
(***************************************************************************)

RECURSIVE Concat(_)
Concat(seqs) == IF seqs = <<>> THEN <<>> ELSE Head(seqs) \o Concat(Tail(seqs))

RECURSIVE Sum(_)
Sum(ns) == IF ns = <<>> THEN 0 ELSE Head(ns) + Sum(Tail(ns))

\* A task before its first suspension point, await file.arrayBuffer().
NewTask == [pc |-> "read", i |-> 0, fileAddresses |-> <<>>, fileDuplicates |-> 0, processed |-> 0]

Settled(task) == task.pc \in {"done", "failed"}

\* Promise.all rejects as soon as one task rejects.
AnyTaskFailed(ts) == \E t \in 1..Len(ts) : ts[t].pc = "failed"

MergeResultsCountingAccepted(ts) ==
  [ kind |-> "ok",
    newAddresses |-> Concat([t \in 1..Len(ts) |-> ts[t].fileAddresses]),
    totalProcessed |-> Sum([t \in 1..Len(ts) |-> Len(ts[t].fileAddresses)]),
    duplicatesSkipped |-> Sum([t \in 1..Len(ts) |-> ts[t].fileDuplicates]) ]

\* for (const r of results) { allNew.push(...r.addresses); ... }, in file order.
MergeResults(ts) ==
  [ kind |-> "ok",
    newAddresses |-> Concat([t \in 1..Len(ts) |-> ts[t].fileAddresses]),
    totalProcessed |-> Sum([t \in 1..Len(ts) |-> ts[t].processed]),
    duplicatesSkipped |-> Sum([t \in 1..Len(ts) |-> ts[t].fileDuplicates]) ]

MergeIntoSnapshot(prev, snapshot, newAddresses) == snapshot \o newAddresses

MergeReplacesCollection(prev, snapshot, newAddresses) == newAddresses

\* setAddresses(prev => [...prev, ...newAddresses])
MergeIntoCollection(prev, snapshot, newAddresses) == prev \o newAddresses

\* onExcelChosen: the user has chosen files.  setIsImporting(true), then
\* importExcelFiles(files, addresses) runs up to the first await of every
\* file task.  The import button is disabled while isImporting.  The model
\* starts an import only when the file tasks of a rejected earlier call have
\* run to their end.
StartImport ==
  /\ ~isImporting
  /\ nImports < MaxImports
  /\ \A t \in 1..Len(tasks) : Settled(tasks[t])
  /\ \E chosen \in Selections :
       /\ files' = chosen
       /\ tasks' = [t \in 1..Len(chosen) |-> NewTask]
  /\ isImporting' = TRUE
  /\ existing' = addresses
  /\ baseId' = now
  /\ batchKeys' = {}
  /\ outcome' = NoOutcome
  /\ callStatus' = "running"
  /\ nImports' = nImports + 1
  /\ UNCHANGED << addresses, importStats, offTimer, now, parseIntCache, parseFloatCache,
                  download, nEdits, sideVars >>

\* What follows a step of a file task in the same turn of the event loop:
\* the rejection or resolution of Promise.all, the finally block that clears
\* the parse caches, and the caller's then/catch/finally.
AfterTaskStep(newTasks, newBatch, intCache, floatCache) ==
  /\ tasks' = newTasks
  /\ batchKeys' = newBatch
  /\ UNCHANGED << isImporting, now, callVars, download, nImports, nEdits, sideVars >>
  /\ IF callStatus = "running" /\ AnyTaskFailed(newTasks)
       THEN /\ callStatus' = "rejected"
            /\ outcome' = [kind |-> "error"]
            /\ parseIntCache' = EmptyCache
            /\ parseFloatCache' = EmptyCache
            /\ importStats' = [ kind |-> "error", totalProcessed |-> 0, imported |-> 0,
                                duplicatesSkipped |-> 0, files |-> Len(files) ]
            /\ offTimer' = now + IMPORTING_OFF_DELAY
            /\ UNCHANGED addresses
     ELSE IF callStatus = "running" /\ \A t \in 1..Len(newTasks) : newTasks[t].pc = "done"
       THEN \E result \in {MergeResults(newTasks)} :
               /\ callStatus' = "resolved"
               /\ outcome' = result
               /\ parseIntCache' = EmptyCache
               /\ parseFloatCache' = EmptyCache
               /\ addresses' = MergeIntoCollection(addresses, existing, result.newAddresses)
               /\ importStats' = [ kind |-> "ok", totalProcessed |-> result.totalProcessed,
                                   imported |-> Len(result.newAddresses),
                                   duplicatesSkipped |-> result.duplicatesSkipped,
                                   files |-> Len(files) ]
               /\ offTimer' = now + IMPORTING_OFF_DELAY
     ELSE /\ parseIntCache' = intCache
          /\ parseFloatCache' = floatCache
          /\ UNCHANGED << callStatus, outcome, addresses, importStats, offTimer >>

\* The accumulators a task's code sees when it runs.
TaskAcc(t) ==
  [ fileAddresses |-> tasks[t].fileAddresses,
    fileDuplicates |-> tasks[t].fileDuplicates,
    batchKeys |-> batchKeys,
    intCache |-> parseIntCache,
    floatCache |-> parseFloatCache ]

\* The task after the chunk loop ran from index i to its next suspension
\* point or to the end of the rows.
TaskAfterRun(run, rows) ==
  [ pc |-> IF run.suspended THEN "timer" ELSE "done",
    i |-> run.i,
    fileAddresses |-> run.acc.fileAddresses,
    fileDuplicates |-> run.acc.fileDuplicates,
    processed |-> IF run.suspended THEN 0 ELSE Len(rows) ]

DecodeErrorSwallowed(file) == FALSE

DecodeFailsWithoutSheet(file) == ~file.readable \/ ~file.sheet

\* XLSX.read throws on a file it cannot decode.
DecodeFails(file) == ~file.readable

\* file.arrayBuffer() has completed for task t: decode the file, take the
\* first worksheet and run the chunk loop up to its first suspension point.
FileRead ==
  \E t \in 1..Len(tasks) :
    /\ tasks[t].pc = "read"
    /\ LET file == Files[files[t]]
       IN IF DecodeFails(file)
            THEN AfterTaskStep([tasks EXCEPT ![t].pc = "failed"], batchKeys,
                               parseIntCache, parseFloatCache)
          ELSE IF ~file.sheet
            THEN AfterTaskStep([tasks EXCEPT ![t].pc = "done"], batchKeys,
                               parseIntCache, parseFloatCache)
          ELSE \E keys \in {existingKeysOf(existing)} :
               \E run \in {RunLoop(TaskAcc(t), file.rows, 0, keys, baseId, t - 1)} :
                 AfterTaskStep([tasks EXCEPT ![t] = TaskAfterRun(run, file.rows)],
                               run.acc.batchKeys, run.acc.intCache, run.acc.floatCache)

\* The timer of task t's suspension point has fired: i += CHUNK_SIZE and the
\* chunk loop goes on.
TimerFired ==
  \E t \in 1..Len(tasks) :
    /\ tasks[t].pc = "timer"
    /\ LET file == Files[files[t]]
       IN \E keys \in {existingKeysOf(existing)} :
          \E run \in {RunLoop(TaskAcc(t), file.rows, tasks[t].i + CHUNK_SIZE, keys,
                               baseId, t - 1)} :
            AfterTaskStep([tasks EXCEPT ![t] = TaskAfterRun(run, file.rows)],
                          run.acc.batchKeys, run.acc.intCache, run.acc.floatCache)

\* The 500 ms timer set in onExcelChosen's finally block.
ImportingOff ==
  /\ offTimer # NoTimer
  /\ now >= offTimer
  /\ isImporting' = FALSE
  /\ offTimer' = NoTimer
  /\ UNCHANGED << addresses, importStats, now, callStatus, callVars, batchKeys, outcome,
                  tasks, parseIntCache, parseFloatCache, download, nImports, nEdits,
                  sideVars >>

\* Time passes.
Tick ==
  /\ \E reading \in ClockReadings : reading > now /\ now' = reading
  /\ UNCHANGED << addresses, importStats, isImporting, offTimer, callStatus, callVars,
                  batchKeys, outcome, tasks, parseIntCache, parseFloatCache, download,
                  nImports, nEdits, sideVars >>

(***************************************************************************)
(* The owner of the collection                                             *)
(***************************************************************************)

\* { ...a, ...patch }
ApplyPatch(a, patch) == [f \in DOMAIN a |-> IF f \in DOMAIN patch THEN patch[f] ELSE a[f]]

\* setAddresses(prev => prev.map(a => a.id === id ? { ...a, ...patch } : a))
updateAddress(prev, id, patch) ==
  [k \in 1..Len(prev) |-> IF prev[k].id = id THEN ApplyPatch(prev[k], patch) ELSE prev[k]]

\* The user saves a note or toggles a tracking flag of a displayed record.
UpdateAddress ==
  /\ nEdits < MaxEdits
  /\ \E k \in 1..Len(addresses), patch \in Patches :
       addresses' = updateAddress(addresses, addresses[k].id, patch)
  /\ nEdits' = nEdits + 1
  /\ UNCHANGED << importStats, isImporting, offTimer, now, callStatus, callVars, batchKeys,
                  outcome, tasks, parseIntCache, parseFloatCache, download, nImports,
                  sideVars >>

\* exportCSV on a host without the native plugins: exportCSVWeb(addresses)
\* builds the rows and the codec writes the CSV file the browser downloads.
\* The export button is shown only when the collection is not empty.
ExportCSV ==
  /\ addresses # <<>>
  /\ download' = [made |-> TRUE, from |-> addresses, rows |-> csvRows(exportData(addresses))]
  /\ UNCHANGED << addresses, importStats, isImporting, offTimer, now, callStatus, callVars,
                  batchKeys, outcome, tasks, parseIntCache, parseFloatCache, nImports,
                  nEdits, sideVars >>

Next ==
  \/ StartImport
  \/ FileRead
  \/ TimerFired
  \/ ImportingOff
  \/ Tick
  \/ UpdateAddress
  \/ ExportCSV

Spec == Init /\ [][Next]_vars

(***************************************************************************)
(* The id assignment of one call, for files of any length                  *)
(***************************************************************************)

\* Files of one call, and runs of accepted rows, in one behaviour.
MaxIdFiles == 3

MaxIdRuns == 3

\* The numbers of rows a file task accepts in one run.
RunLengths == {1, 2, FILE_STRIDE - 1, FILE_STRIDE}

appVars ==
  << addresses, importStats, isImporting, offTimer, now, callStatus, files, existing,
     baseId, batchKeys, outcome, tasks, parseIntCache, parseFloatCache, download,
     nImports, nEdits >>

\* const baseId = Date.now(); every file task starts with an empty
\* fileAddresses.
IdInit ==
  /\ AppInit
  /\ \E base \in ClockReadings, n \in 1..MaxIdFiles :
       idCall = [baseId |-> base, lengths |-> [f \in 1..n |-> 0], runs |-> <<>>]
  /\ save = NoSave
  /\ call = NoCall

\* The task of file f accepts n more rows: each gets
\* id = baseId + fileIdx * 1_000_000 + fileAddresses.length and is pushed to
\* fileAddresses.  A run is recorded by its first and its last id.
AcceptRows ==
  /\ Len(idCall.runs) < MaxIdRuns
  /\ \E f \in 1..Len(idCall.lengths), n \in RunLengths :
       idCall' = [ idCall EXCEPT
                     !.lengths[f] = @ + n,
                     !.runs = Append(@, [ file |-> f - 1,
                                          first |-> NextId(idCall.baseId, f - 1, idCall.lengths[f]),
                                          last |-> NextId(idCall.baseId, f - 1,
                                                          idCall.lengths[f] + n - 1) ]) ]
  /\ UNCHANGED << appVars, save, call >>

IdNext == AcceptRows

IdSpec == IdInit /\ [][IdNext]_vars

(***************************************************************************)
(* Export on a native host: lib/native.ts                                  *)
(***************************************************************************)

\* saveDataToCSVNativeOrWeb calls in one behaviour.
MaxSaves == 2

\* const CACHE_DURATION = 30_000
CACHE_DURATION == 30000

\* window.Capacitor: whether it is there, what isNativePlatform() and
\* getPlatform() do, and which plugins it has.
Hosts ==
  { [capacitor |-> FALSE, isNativePlatform |-> "absent", platform |-> "absent",
     filesystem |-> FALSE, share |-> FALSE] }
  \cup [ capacitor : {TRUE},
         isNativePlatform : {"absent", "true", "false", "throws"},
         platform : {"absent", "ios", "android", "web", "throws"},
         filesystem : BOOLEAN,
         share : BOOLEAN ]

NoTimestamp == -1

\* let platformCache = {}
EmptyPlatformCache ==
  [isNative |-> "undefined", platform |-> "undefined", timestamp |-> NoTimestamp]

\* platformCache.timestamp && now - platformCache.timestamp < CACHE_DURATION.
\* The clock counts from the first reading, so a timestamp of 0 is a set one.
FreshTimestamp(cache, time) ==
  cache.timestamp # NoTimestamp /\ time - cache.timestamp < CACHE_DURATION

\* p === 'ios' || p === 'android' ? p : 'web'
PlatformOf(p) == IF p \in {"ios", "android"} THEN p ELSE "web"

\* getPlatform(): the platform and the cache it leaves.
getPlatform(cache, host, time) ==
  IF cache.platform # "undefined" /\ FreshTimestamp(cache, time)
    THEN [value |-> cache.platform, cache |-> cache]
  ELSE LET platform == IF ~host.capacitor \/ host.platform \in {"absent", "throws"}
                         THEN "web" ELSE PlatformOf(host.platform)
       IN [ value |-> platform,
            cache |-> [cache EXCEPT !.platform = platform, !.timestamp = time] ]

\* isNativeCapacitor(): the answer and the cache it leaves.
isNativeCapacitor(cache, host, time) ==
  IF cache.isNative # "undefined" /\ FreshTimestamp(cache, time)
    THEN [value |-> cache.isNative = "true", cache |-> cache]
  ELSE IF ~host.capacitor \/ host.isNativePlatform = "throws"
            \/ (host.isNativePlatform = "absent" /\ host.platform = "throws")
    THEN [ value |-> FALSE,
           cache |-> [isNative |-> "false", platform |-> "web", timestamp |-> time] ]
  ELSE IF host.isNativePlatform # "absent"
    THEN [ value |-> host.isNativePlatform = "true",
           cache |-> [ isNative |-> host.isNativePlatform,
                       platform |-> getPlatform(cache, host, time).value,
                       timestamp |-> time ] ]
  ELSE LET platform == PlatformOf(host.platform)
       IN [ value |-> platform # "web",
            cache |-> [ isNative |-> IF platform # "web" THEN "true" ELSE "false",
                        platform |-> platform,
                        timestamp |-> time ] ]

\* The lengths of the addresses argument.
SaveLengths == {0, 1}

\* The awaited steps of the native path, in order: getXLSXModule(), the CSV
\* build, Filesystem.writeFile, Filesystem.getUri, Share.share.
NativeSteps == << "codec", "build", "write", "uri", "share" >>

SaveInit ==
  /\ AppInit
  /\ idCall = NoIdCall
  /\ call = NoCall
  /\ \E host \in Hosts :
       save = [ pc |-> "idle", host |-> host, cache |-> EmptyPlatformCache, length |-> 0,
                steps |-> <<>>, nativeFailed |-> FALSE, webCalls |-> 0, webFailed |-> FALSE,
                result |-> "none", nSaves |-> 0 ]

\* saveDataToCSVNativeOrWeb(addresses, webFallback) up to its first await.
SaveStart ==
  /\ save.pc \in {"idle", "settled"}
  /\ save.nSaves < MaxSaves
  /\ \E length \in SaveLengths :
     \E native \in {isNativeCapacitor(save.cache, save.host, now)} :
       LET fresh == [ save EXCEPT !.length = length, !.steps = <<>>, !.nativeFailed = FALSE,
                                  !.webCalls = 0, !.webFailed = FALSE,
                                  !.result = "pending", !.nSaves = @ + 1 ]
       IN save' =
            IF length = 0
              THEN [fresh EXCEPT !.pc = "settled", !.result = "rejected"]
            ELSE IF ~native.value
              THEN [fresh EXCEPT !.pc = "web", !.cache = native.cache]
            ELSE IF ~save.host.filesystem \/ ~save.host.share
              THEN [fresh EXCEPT !.pc = "web", !.cache = native.cache]
            ELSE [fresh EXCEPT !.pc = "codec", !.cache = native.cache]
  /\ UNCHANGED << appVars, idCall, call >>

NativeFailureRethrown(s) ==
  [s EXCEPT !.nativeFailed = TRUE, !.pc = "settled", !.result = "rejected"]

\* catch (error) { try { await webFallback() } ... }
AfterNativeFailure(s) == [s EXCEPT !.nativeFailed = TRUE, !.pc = "fallback"]

\* The call after a step of the native path has completed (ok) or thrown.
AfterNativeStep(step, next, ok) ==
  LET tried == [save EXCEPT !.steps = Append(@, step)]
  IN IF ~ok THEN AfterNativeFailure(tried)
     ELSE IF next = "settled" THEN [tried EXCEPT !.pc = next, !.result = "resolved"]
     ELSE [tried EXCEPT !.pc = next]

\* await getXLSXModule()
CodecLoaded ==
  /\ save.pc = "codec"
  /\ \E ok \in BOOLEAN : save' = AfterNativeStep("codec", "build", ok)
  /\ UNCHANGED << appVars, idCall, call >>

\* transformAddressesToCSV, json_to_sheet, sheet_to_csv
CsvBuilt ==
  /\ save.pc = "build"
  /\ \E ok \in BOOLEAN : save' = AfterNativeStep("build", "write", ok)
  /\ UNCHANGED << appVars, idCall, call >>

\* await Filesystem.writeFile(...)
FileWritten ==
  /\ save.pc = "write"
  /\ \E ok \in BOOLEAN : save' = AfterNativeStep("write", "uri", ok)
  /\ UNCHANGED << appVars, idCall, call >>

\* await Filesystem.getUri(...); if (!uriResult?.uri) throw
UriFound ==
  /\ save.pc = "uri"
  /\ \E ok \in BOOLEAN : save' = AfterNativeStep("uri", "share", ok)
  /\ UNCHANGED << appVars, idCall, call >>

\* await Share.share(...)
Shared ==
  /\ save.pc = "share"
  /\ \E ok \in BOOLEAN : save' = AfterNativeStep("share", "settled", ok)
  /\ UNCHANGED << appVars, idCall, call >>

\* await webFallback(), on the direct path or after a native failure.
WebFallback ==
  /\ save.pc \in {"web", "fallback"}
  /\ \E ok \in BOOLEAN :
       save' = [ save EXCEPT !.webCalls = @ + 1,
                             !.webFailed = ~ok,
                             !.pc = "settled",
                             !.result = IF ok THEN "resolved" ELSE "rejected" ]
  /\ UNCHANGED << appVars, idCall, call >>

SaveNext ==
  \/ SaveStart
  \/ CodecLoaded
  \/ CsvBuilt
  \/ FileWritten
  \/ UriFound
  \/ Shared
  \/ WebFallback
  \/ Tick

SaveSpec == SaveInit /\ [][SaveNext]_vars

(***************************************************************************)
(* The field mapper and the value coercers, called on their own            *)
(***************************************************************************)

\* The cells a column holds in the rows getFieldValue is called with.
FieldCells ==
  { Str(<<>>), Str(<<" ">>), Str(<<"x">>), Str(<<" ", "x", " ">>), Num(7000), Bool(FALSE) }

FieldColumns == {"Adresse", "Address"}

\* Rows: every choice of the columns that are there and of their cells.
FieldRows == UNION { [cols -> FieldCells] : cols \in SUBSET FieldColumns }

\* The alias lists getFieldValue is called with.
AliasLists ==
  { <<>>, <<"Adresse">>, FIELD_MAPPINGS.address, <<"Address", "Adresse">>,
    <<"Region", "Address">> }

FieldInit ==
  /\ AppInit
  /\ idCall = NoIdCall
  /\ save = NoSave
  /\ \E row \in FieldRows, fieldNames \in AliasLists :
       call = [fn |-> "idle", row |-> row, fieldNames |-> fieldNames, result |-> <<>>]

\* getFieldValue(row, fieldNames)
CallGetFieldValue ==
  /\ call.fn = "idle"
  /\ call' = [call EXCEPT !.fn = "getFieldValue",
                          !.result = getFieldValue(call.row, call.fieldNames)]
  /\ UNCHANGED << appVars, idCall, save >>

FieldNext == CallGetFieldValue

FieldSpec == FieldInit /\ [][FieldNext]_vars

\* The longest text a coercer is called with, beside the catalogue below.
MaxTextLen == 3

\* The calls one coercer receives in a row.
MaxCalls == 2

CoerceChars == {"1", "5", ".", ",", " ", "-", "x"}

\* All texts of at most n characters of CoerceChars.
RECURSIVE TextsUpTo(_)
TextsUpTo(n) ==
  IF n = 0 THEN {<<>>}
  ELSE LET shorter == TextsUpTo(n - 1)
       IN shorter \cup { t \o <<c>> : t \in shorter, c \in CoerceChars }

\* Longer texts: a thousands separator, a decimal comma, both, a fraction
\* of four digits, a unit, and the names of the non-finite numbers.
CoerceCatalogue ==
  { <<"1", ".", "2", "3", "4">>, <<"1", "2", ",", "5", "0">>,
    <<"1", ".", "2", "3", "4", ",", "5">>, <<"1", ".", "2", "3", "4", "5">>,
    <<"1", "2", " ", "k", "m">>, <<"N", "a", "N">>,
    <<"I", "n", "f", "i", "n", "i", "t", "y">> }

\* The cell values a coercer is called with: a missing cell, texts,
\* booleans, finite numbers (in thousandths) and a non-finite number.
CellValues ==
  {Absent, Bool(TRUE), Bool(FALSE)}
    \cup { Str(t) : t \in TextsUpTo(MaxTextLen) \cup CoerceCatalogue }
    \cup { Num(m) : m \in {0, 7000, 1500, -1500, 12700, 1234, NonFiniteNumber} }

\* A number a coercer returned, as the native number it is.
NativeInt(out) == Num(IF IsFiniteNumber(out) THEN out * 1000 ELSE NonFiniteNumber)

NativeFloat(out) == Num(out)

\* A row holding the value under the first alias of each numeric field.
NumericRow(value) ==
  LET columns == IF value = Absent THEN {}
                 ELSE {FIELD_MAPPINGS.homes[1], FIELD_MAPPINGS.contractStatus[1],
                       FIELD_MAPPINGS.price[1]}
  IN (FIELD_MAPPINGS.address[1] :> Str(<<"x">>)) @@ [c \in columns |-> value]

CoerceInit ==
  /\ AppInit
  /\ idCall = NoIdCall
  /\ save = NoSave
  /\ \E value \in CellValues :
       call = [fn |-> "idle", value |-> value, results |-> <<>>,
               intCache |-> <<>>, floatCache |-> <<>>]

\* safeParseInt(value), then safeParseInt of the number it returned.
CallSafeParseInt ==
  /\ call.fn \in {"idle", "safeParseInt"}
  /\ Len(call.results) < MaxCalls
  /\ \E arg \in {IF call.results = <<>> THEN call.value
                  ELSE NativeInt(call.results[Len(call.results)])} :
       \E r \in {safeParseInt(arg, 0, call.intCache)} :
         call' = [call EXCEPT !.fn = "safeParseInt",
                              !.results = Append(@, r.out),
                              !.intCache = r.cache]
  /\ UNCHANGED << appVars, idCall, save >>

\* safeParseFloat(value), then safeParseFloat of the number it returned.
CallSafeParseFloat ==
  /\ call.fn \in {"idle", "safeParseFloat"}
  /\ Len(call.results) < MaxCalls
  /\ \E arg \in {IF call.results = <<>> THEN call.value
                  ELSE NativeFloat(call.results[Len(call.results)])} :
       \E r \in {safeParseFloat(arg, 0, call.floatCache)} :
         call' = [call EXCEPT !.fn = "safeParseFloat",
                              !.results = Append(@, r.out),
                              !.floatCache = r.cache]
  /\ UNCHANGED << appVars, idCall, save >>

\* createAddress(row, id) of a row holding the value in its numeric
\* columns; the second call meets the caches the first one filled.
CallCreateAddress ==
  /\ call.fn \in {"idle", "createAddress"}
  /\ Len(call.results) < MaxCalls
  /\ \E r \in {createAddress(NumericRow(call.value), Len(call.results) + 1,
                              call.intCache, call.floatCache)} :
       call' = [call EXCEPT !.fn = "createAddress",
                            !.results = Append(@, r.address),
                            !.intCache = r.intCache,
                            !.floatCache = r.floatCache]
  /\ UNCHANGED << appVars, idCall, save >>

CoerceNext == CallSafeParseInt \/ CallSafeParseFloat \/ CallCreateAddress

CoerceSpec == CoerceInit /\ [][CoerceNext]_vars

(***************************************************************************)
(* The chunk loop of the export, for collections of any length             *)
(***************************************************************************)

\* const CHUNK_SIZE = 500 of exportCSVWeb.
EXPORT_CHUNK_SIZE == 500

\* if (i % (CHUNK_SIZE * 2) === 0): the loop yields after every second chunk.
EXPORT_YIELD_CHUNKS == 2

\* The collections exported have up to MaxExportChunks full chunks, give or
\* take ExportMargin records.
MaxExportChunks == 2

ExportMargin == 7

ExportLengths ==
  { n \in 0..(MaxExportChunks * EXPORT_CHUNK_SIZE + ExportMargin) :
      \E c \in 0..MaxExportChunks :
        n \in (c * EXPORT_CHUNK_SIZE - ExportMargin)..(c * EXPORT_CHUNK_SIZE + ExportMargin) }

\* A collection of n imported records, the address of record k naming k.
ExportRecords(n) ==
  [k \in 1..n |->
     createAddress((FIELD_MAPPINGS.address[1] :> Str(NatToString(k)))
                     @@ (FIELD_MAPPINGS.homes[1] :> Str(NatToString(k))),
                   k, EmptyCache, EmptyCache).address]

exportFillChunkWithoutOffset(acc, chunk, i) ==
  [ data |-> [k \in DOMAIN acc.data |->
                IF k \in 1..Len(chunk) THEN exportRow(chunk[k]) ELSE acc.data[k]],
    writes |-> [k \in DOMAIN acc.writes |->
                  IF k \in 1..Len(chunk) THEN acc.writes[k] + 1 ELSE acc.writes[k]] ]

\* for (let j = 0; j < chunk.length; j++) data[i + j] = { ... }; writes
\* counts the assignments to each index.
exportFillChunk(acc, chunk, i) ==
  [ data |-> [k \in DOMAIN acc.data |->
                IF k \in (i + 1)..(i + Len(chunk)) THEN exportRow(chunk[k - i])
                ELSE acc.data[k]],
    writes |-> [k \in DOMAIN acc.writes |->
                  IF k \in (i + 1)..(i + Len(chunk)) THEN acc.writes[k] + 1
                  ELSE acc.writes[k]] ]

\* The chunk loop of exportCSVWeb from index i to its next suspension point
\* or to the end of the records.
RECURSIVE exportLoop(_, _, _)
exportLoop(acc, records, i) ==
  IF i >= Len(records) THEN [acc |-> acc, i |-> i, suspended |-> FALSE]
  ELSE With(exportFillChunk(acc, SubSeq(records, i + 1, Min(i + EXPORT_CHUNK_SIZE, Len(records))), i),
            LAMBDA filled :
              IF i % (EXPORT_CHUNK_SIZE * EXPORT_YIELD_CHUNKS) = 0
                THEN [acc |-> filled, i |-> i, suspended |-> TRUE]
              ELSE exportLoop(filled, records, i + EXPORT_CHUNK_SIZE))

\* The call after a run of the loop: suspended, or the rows of the CSV file
\* written from the data array (an index never assigned gives no cell).
exportAfterRun(c, run) ==
  [c EXCEPT !.pc = IF run.suspended THEN "timer" ELSE "downloaded",
            !.i = run.i,
            !.data = run.acc.data,
            !.writes = run.acc.writes,
            !.rows = IF run.suspended THEN <<>>
                     ELSE csvRows([k \in DOMAIN run.acc.data |->
                                     IF run.acc.writes[k] = 0 THEN <<>>
                                     ELSE run.acc.data[k]])]

ExportInit ==
  /\ AppInit
  /\ idCall = NoIdCall
  /\ save = NoSave
  /\ \E n \in ExportLengths :
       call = [fn |-> "exportCSVWeb", pc |-> "called", records |-> ExportRecords(n),
               i |-> 0, data |-> <<>>, writes |-> <<>>, rows |-> <<>>]

\* exportCSVWeb(addresses) up to its first suspension point: an empty
\* collection is refused, otherwise data = new Array(addresses.length) and
\* the loop runs its first chunk.
ExportStart ==
  /\ call.fn = "exportCSVWeb"
  /\ call.pc = "called"
  /\ IF call.records = <<>>
       THEN call' = [call EXCEPT !.pc = "rejected"]
     ELSE \E acc \in {[data |-> [k \in 1..Len(call.records) |-> Absent],
                        writes |-> [k \in 1..Len(call.records) |-> 0]]} :
          \E run \in {exportLoop(acc, call.records, 0)} :
            call' = exportAfterRun(call, run)
  /\ UNCHANGED << appVars, idCall, save >>

\* The timer of the suspension point has fired: i += CHUNK_SIZE, the loop
\* goes on, and after it the sheet is built and written.
ExportTimerFired ==
  /\ call.fn = "exportCSVWeb"
  /\ call.pc = "timer"
  /\ \E run \in {exportLoop([data |-> call.data, writes |-> call.writes], call.records,
                             call.i + EXPORT_CHUNK_SIZE)} :
       call' = exportAfterRun(call, run)
  /\ UNCHANGED << appVars, idCall, save >>

ExportNext == ExportStart \/ ExportTimerFired

ExportSpec == ExportInit /\ [][ExportNext]_vars

(***************************************************************************)
(* Runs of coercer calls sharing the module-level caches                   *)
(***************************************************************************)

\* The calls of one run.
MaxCacheCalls == 3

\* The values and the fallbacks the callers pass.
CacheValues ==
  { Absent, Str(<<>>), Str(<<"x">>), Str(<<"7">>), Str(<<"1", ",", "5">>),
    Num(1500), Num(NonFiniteNumber) }

Fallbacks == {0, 5}

NoCoercion == [variant |-> "none", value |-> Absent, fallback |-> 0, out |-> 0]

CacheInit ==
  /\ AppInit
  /\ idCall = NoIdCall
  /\ save = NoSave
  /\ call = [fn |-> "cached", n |-> 0, intCache |-> EmptyCache, floatCache |-> EmptyCache,
             last |-> NoCoercion]

\* safeParseInt(value, fallback) on the caches the earlier calls left.
CachedSafeParseInt ==
  /\ call.fn = "cached"
  /\ call.n < MaxCacheCalls
  /\ \E value \in CacheValues, fallback \in Fallbacks :
       \E r \in {safeParseInt(value, fallback, call.intCache)} :
         call' = [call EXCEPT !.n = @ + 1,
                              !.intCache = r.cache,
                              !.last = [variant |-> "int", value |-> value,
                                        fallback |-> fallback, out |-> r.out]]
  /\ UNCHANGED << appVars, idCall, save >>

\* safeParseFloat(value, fallback) on the caches the earlier calls left.
CachedSafeParseFloat ==
  /\ call.fn = "cached"
  /\ call.n < MaxCacheCalls
  /\ \E value \in CacheValues, fallback \in Fallbacks :
       \E r \in {safeParseFloat(value, fallback, call.floatCache)} :
         call' = [call EXCEPT !.n = @ + 1,
                              !.floatCache = r.cache,
                              !.last = [variant |-> "float", value |-> value,
                                        fallback |-> fallback, out |-> r.out]]
  /\ UNCHANGED << appVars, idCall, save >>

CacheNext == CachedSafeParseInt \/ CachedSafeParseFloat

CacheSpec == CacheInit /\ [][CacheNext]_vars

(***************************************************************************)
(* The control of one import call: file reads, chunk loops, timers         *)
(***************************************************************************)

\* The files of one call.
MaxSettleFiles == 2

\* The worksheets: no row, one row, a chunk, the rows up to the first
\* chunk that is followed by no yield, and a row more than each.
SheetLengths ==
  { 0, 1, CHUNK_SIZE, CHUNK_SIZE + 1, 2 * CHUNK_SIZE + 1,
    YIELD_CHUNKS * CHUNK_SIZE, YIELD_CHUNKS * CHUNK_SIZE + 1 }

\* A file as the control sees it: whether it can be decoded, whether it
\* has a first worksheet, and the number of its rows.
SettleFiles ==
  { [readable |-> FALSE, sheet |-> FALSE, length |-> 0],
    [readable |-> TRUE, sheet |-> FALSE, length |-> 0] }
    \cup { [readable |-> TRUE, sheet |-> TRUE, length |-> n] : n \in SheetLengths }

SettleFileLists == UNION { [1..n -> SettleFiles] : n \in 1..MaxSettleFiles }

chunkEndBeforeLast(i, length) == Min(i + CHUNK_SIZE, length) - 1

\* rows.slice(i, i + CHUNK_SIZE) ends before row index chunkEnd(i, length).
chunkEnd(i, length) == Min(i + CHUNK_SIZE, length)

\* The chunk loop from index i to its next suspension point or to the end
\* of the rows; visited lists the rows the row loop went through, rows
\* numbered from 0 as in the code.
RECURSIVE visitLoop(_, _, _)
visitLoop(visited, length, i) ==
  IF i >= length THEN [visited |-> visited, i |-> i, suspended |-> FALSE]
  ELSE With(visited \o [j \in 1..(chunkEnd(i, length) - i) |-> i + j - 1], LAMBDA after :
         IF YieldsAfterChunk(i) THEN [visited |-> after, i |-> i, suspended |-> TRUE]
         ELSE visitLoop(after, length, i + CHUNK_SIZE))

SettleTaskAfter(run) ==
  [pc |-> IF run.suspended THEN "timer" ELSE "done", i |-> run.i, visited |-> run.visited]

\* Promise.all: rejected with the first failure, resolved when every task
\* is done.
SettleStatus(status, ts) ==
  IF status # "running" THEN status
  ELSE IF \E t \in 1..Len(ts) : ts[t].pc = "failed" THEN "rejected"
  ELSE IF \A t \in 1..Len(ts) : ts[t].pc = "done" THEN "resolved"
  ELSE "running"

\* importExcelFiles(files, existing) has run up to the first await of
\* every file task.
SettleInit ==
  /\ AppInit
  /\ idCall = NoIdCall
  /\ save = NoSave
  /\ \E chosen \in SettleFileLists :
       call = [fn |-> "importExcelFiles", status |-> "running", files |-> chosen,
               tasks |-> [t \in 1..Len(chosen) |-> [pc |-> "read", i |-> 0, visited |-> <<>>]]]

SettleStep(newTasks) ==
  /\ call' = [call EXCEPT !.tasks = newTasks, !.status = SettleStatus(@, newTasks)]
  /\ UNCHANGED << appVars, idCall, save >>

\* file.arrayBuffer() of task t has completed.
ReadCompleted ==
  /\ call.fn = "importExcelFiles"
  /\ \E t \in 1..Len(call.tasks) :
       /\ call.tasks[t].pc = "read"
       /\ LET file == call.files[t]
          IN IF ~file.readable
               THEN SettleStep([call.tasks EXCEPT ![t].pc = "failed"])
             ELSE IF ~file.sheet
               THEN SettleStep([call.tasks EXCEPT ![t].pc = "done"])
             ELSE \E run \in {visitLoop(<<>>, file.length, 0)} :
                    SettleStep([call.tasks EXCEPT ![t] = SettleTaskAfter(run)])

\* The timer of task t's suspension point has fired.
TimerCompleted ==
  /\ call.fn = "importExcelFiles"
  /\ \E t \in 1..Len(call.tasks) :
       /\ call.tasks[t].pc = "timer"
       /\ \E run \in {visitLoop(call.tasks[t].visited, call.files[t].length,
                                 call.tasks[t].i + CHUNK_SIZE)} :
            SettleStep([call.tasks EXCEPT ![t] = SettleTaskAfter(run)])

SettleNext == ReadCompleted \/ TimerCompleted

\* Every file read completes and the scheduler eventually runs every
\* pending timer callback.
SettleSpec ==
  SettleInit /\ [][SettleNext]_vars /\ WF_vars(ReadCompleted) /\ WF_vars(TimerCompleted)

(***************************************************************************)
(* Runs of platform detection calls sharing platformCache                  *)
(***************************************************************************)

\* The calls of one run.
MaxPlatformCalls == 3

\* The readings of Date.now() at the calls.
PlatformTimes ==
  { 0, CACHE_DURATION - 1, CACHE_DURATION, 2 * CACHE_DURATION - 1, 2 * CACHE_DURATION }

\* The hosts, as far as the detection looks at them.
DetectionHosts == { h \in Hosts : h.filesystem = h.capacitor /\ h.share = h.capacitor }

\* detectedAt is the time of the detection that wrote platformCache.isNative.
PlatformInit ==
  /\ AppInit
  /\ idCall = NoIdCall
  /\ save = NoSave
  /\ \E host \in DetectionHosts :
       call = [fn |-> "platform", host |-> host, cache |-> EmptyPlatformCache,
               detectedAt |-> NoTimestamp, time |-> 0, n |-> 0,
               last |-> [op |-> "none", cached |-> FALSE]]

\* isNativeCapacitor() at a later or equal time.
IsNativeCapacitorCalled ==
  /\ call.fn = "platform"
  /\ call.n < MaxPlatformCalls
  /\ \E time \in PlatformTimes :
       /\ time >= call.time
       /\ \E r \in {isNativeCapacitor(call.cache, call.host, time)} :
          \E hit \in {call.cache.isNative # "undefined" /\ FreshTimestamp(call.cache, time)} :
            call' = [call EXCEPT !.cache = r.cache,
                                 !.time = time,
                                 !.n = @ + 1,
                                 !.detectedAt = IF hit THEN @ ELSE time,
                                 !.last = [op |-> "isNativeCapacitor", cached |-> hit]]
  /\ UNCHANGED << appVars, idCall, save >>

\* getPlatform() at a later or equal time; it leaves platformCache.isNative
\* as it is.
GetPlatformCalled ==
  /\ call.fn = "platform"
  /\ call.n < MaxPlatformCalls
  /\ \E time \in PlatformTimes :
       /\ time >= call.time
       /\ \E r \in {getPlatform(call.cache, call.host, time)} :
            call' = [call EXCEPT !.cache = r.cache,
                                 !.time = time,
                                 !.n = @ + 1,
                                 !.last = [op |-> "getPlatform", cached |-> r.cache = call.cache]]
  /\ UNCHANGED << appVars, idCall, save >>

\* clearNativeCaches(): platformCache = {}.
ClearNativeCachesCalled ==
  /\ call.fn = "platform"
  /\ call.n < MaxPlatformCalls
  /\ call.cache # EmptyPlatformCache
  /\ call' = [call EXCEPT !.cache = EmptyPlatformCache,
                          !.n = @ + 1,
                          !.detectedAt = NoTimestamp,
                          !.last = [op |-> "clearNativeCaches", cached |-> FALSE]]
  /\ UNCHANGED << appVars, idCall, save >>

PlatformNext == IsNativeCapacitorCalled \/ GetPlatformCalled \/ ClearNativeCachesCalled

PlatformSpec == PlatformInit /\ [][PlatformNext]_vars

(***************************************************************************)
(* The control of onExcelChosen around one import call                     *)
(***************************************************************************)

\* The numbers of accepted records among total processed rows that the
\* control distinguishes: none, one, half of the rows, all of them.
AcceptedCounts(total) == {0, total} \cup { n \in {1, total \div 2} : n <= total }

\* What importExcelFiles returns once every task is done: processed is
\* rows.length of every file with a worksheet; how many rows were accepted
\* and how many skipped depends on the rows' texts, which the control does
\* not hold.
UiResults(c) ==
  LET total == Sum([t \in 1..Len(c.files) |-> c.files[t].length])
  IN UNION { { [kind |-> "ok", newAddresses |-> accepted, totalProcessed |-> total,
                duplicatesSkipped |-> skipped] : skipped \in {0, total - accepted} } :
             accepted \in AcceptedCounts(total) }

ErrorStatsWithCounts(c) ==
  [ kind |-> "error", totalProcessed |-> Sum([t \in 1..Len(c.files) |-> c.files[t].length]),
    imported |-> 0, duplicatesSkipped |-> 0, files |-> Len(c.files) ]

\* catch: setImportStats({ totalProcessed: 0, imported: 0, duplicatesSkipped: 0,
\* files: files.length, error: ... })
ErrorStats(c) ==
  [ kind |-> "error", totalProcessed |-> 0, imported |-> 0, duplicatesSkipped |-> 0,
    files |-> Len(c.files) ]

\* setImportStats({ totalProcessed, imported: newAddresses.length,
\* duplicatesSkipped, files: files.length, message: ... })
ResultStats(c, result) ==
  [ kind |-> "ok", totalProcessed |-> result.totalProcessed,
    imported |-> result.newAddresses, duplicatesSkipped |-> result.duplicatesSkipped,
    files |-> Len(c.files) ]

\* finally: the handler with the 500 ms timer sets it, the other one calls
\* setIsImporting(false) at once.
UiFinally(c) ==
  IF c.delayedOff
    THEN [c EXCEPT !.pc = "off-timer", !.offTimer = TRUE]
    ELSE [c EXCEPT !.pc = "ended", !.isImporting = FALSE]

\* const step = Math.max(1, Math.round(newAddresses.length / 10))
ProgressStep(length) == IF (length + 5) \div 10 < 1 THEN 1 ELSE (length + 5) \div 10

\* Both handlers, parts of two versions of the page component: the one that
\* resets isImporting by a timer and the one that simulates progress first.
UiInit ==
  /\ AppInit
  /\ idCall = NoIdCall
  /\ save = NoSave
  /\ \E chosen \in SettleFileLists, delayed \in BOOLEAN :
       call = [fn |-> "onExcelChosen", delayedOff |-> delayed, pc |-> "idle",
               isImporting |-> FALSE, importStats |-> NoStats, offTimer |-> FALSE,
               files |-> chosen, status |-> "idle", tasks |-> <<>>,
               result |-> NoOutcome, i |-> 0]

\* onExcelChosen(files): setIsImporting(true), then importExcelFiles runs up
\* to the first await of every file task.
ExcelChosen ==
  /\ call.fn = "onExcelChosen"
  /\ call.pc = "idle"
  /\ call' = [call EXCEPT !.pc = "awaiting", !.isImporting = TRUE, !.status = "running",
                          !.tasks = [t \in 1..Len(call.files) |->
                                       [pc |-> "read", i |-> 0, visited |-> <<>>]]]
  /\ UNCHANGED << appVars, idCall, save >>

\* file.arrayBuffer() of task t has completed.
UiReadCompleted ==
  /\ call.fn = "onExcelChosen"
  /\ \E t \in 1..Len(call.tasks) :
       /\ call.tasks[t].pc = "read"
       /\ LET file == call.files[t]
          IN IF ~file.readable
               THEN SettleStep([call.tasks EXCEPT ![t].pc = "failed"])
             ELSE IF ~file.sheet
               THEN SettleStep([call.tasks EXCEPT ![t].pc = "done"])
             ELSE \E run \in {visitLoop(<<>>, file.length, 0)} :
                    SettleStep([call.tasks EXCEPT ![t] = SettleTaskAfter(run)])

\* The timer of task t's suspension point has fired.
UiTimerCompleted ==
  /\ call.fn = "onExcelChosen"
  /\ \E t \in 1..Len(call.tasks) :
       /\ call.tasks[t].pc = "timer"
       /\ \E run \in {visitLoop(call.tasks[t].visited, call.files[t].length,
                                 call.tasks[t].i + CHUNK_SIZE)} :
            SettleStep([call.tasks EXCEPT ![t] = SettleTaskAfter(run)])

\* The handler goes on after await importExcelFiles(...): the catch block
\* after a rejection; after a result the statistics, or first the progress
\* simulation of the handler that has one.
AwaitContinued ==
  /\ call.fn = "onExcelChosen"
  /\ call.pc = "awaiting"
  /\ call.status \in {"resolved", "rejected"}
  /\ IF call.status = "rejected"
       THEN call' = UiFinally([call EXCEPT !.importStats = ErrorStats(call)])
     ELSE \E result \in UiResults(call) :
            IF ~call.delayedOff /\ result.newAddresses > 0
              THEN call' = [call EXCEPT !.pc = "progress", !.result = result, !.i = 0]
              ELSE call' = UiFinally([call EXCEPT !.result = result,
                                                 !.importStats = ResultStats(call, result)])
  /\ UNCHANGED << appVars, idCall, save >>

\* for (let i = 0; i < newAddresses.length; i += step) { ...; await new
\* Promise(resolve => requestAnimationFrame(() => setTimeout(resolve, 10))) }:
\* the frame and its timer have fired.
ProgressFrame ==
  /\ call.fn = "onExcelChosen"
  /\ call.pc = "progress"
  /\ \E next \in {call.i + ProgressStep(call.result.newAddresses)} :
       IF next < call.result.newAddresses
         THEN call' = [call EXCEPT !.i = next]
         ELSE call' = UiFinally([call EXCEPT !.i = next,
                                            !.importStats = ResultStats(call, call.result)])
  /\ UNCHANGED << appVars, idCall, save >>

\* setTimeout(() => { setIsImporting(false); setImportProgress(0) }, 500)
ImportingOffFired ==
  /\ call.fn = "onExcelChosen"
  /\ call.pc = "off-timer"
  /\ call.offTimer
  /\ call' = [call EXCEPT !.pc = "ended", !.isImporting = FALSE, !.offTimer = FALSE]
  /\ UNCHANGED << appVars, idCall, save >>

UiNext ==
  \/ ExcelChosen
  \/ UiReadCompleted
  \/ UiTimerCompleted
  \/ AwaitContinued
  \/ ProgressFrame
  \/ ImportingOffFired

\* Every file read completes, and the scheduler eventually runs every
\* pending timer callback, animation frame and promise continuation.
UiSpec ==
  /\ UiInit
  /\ [][UiNext]_vars
  /\ WF_vars(UiReadCompleted)
  /\ WF_vars(UiTimerCompleted)
  /\ WF_vars(AwaitContinued)
  /\ WF_vars(ProgressFrame)
  /\ WF_vars(ImportingOffFired)

(***************************************************************************)
(* normalizeAddressKey, called on an address text and on its own results   *)
(***************************************************************************)

\* The address texts have at most MaxKeyLen characters and the function is
\* applied at most MaxKeyCalls times in a row.
MaxKeyLen == 5

MaxKeyCalls == 2

\* A lower-case and an upper-case letter, the two kinds of white space and
\* a character of the class [.,;:()].
KeyChars == {"a", "B", " ", "\t", ","}

\* All texts of at most n characters of KeyChars.
RECURSIVE KeyTextsUpTo(_)
KeyTextsUpTo(n) ==
  IF n = 0 THEN {<<>>}
  ELSE LET shorter == KeyTextsUpTo(n - 1)
       IN shorter \cup { t \o <<c>> : t \in shorter, c \in KeyChars }

KeyInit ==
  /\ AppInit
  /\ idCall = NoIdCall
  /\ save = NoSave
  /\ \E text \in KeyTextsUpTo(MaxKeyLen) :
       call = [fn |-> "normalizeAddressKey", text |-> text, keys |-> <<>>]

\* normalizeAddressKey(s), s being the address text at the first call and
\* the key returned by the call before at every later one.
NormalizeAddressKeyCalled ==
  /\ call.fn = "normalizeAddressKey"
  /\ Len(call.keys) < MaxKeyCalls
  /\ \E s \in {IF call.keys = <<>> THEN call.text ELSE call.keys[Len(call.keys)]} :
       call' = [call EXCEPT !.keys = Append(@, normalizeAddressKey(s))]
  /\ UNCHANGED << appVars, idCall, save >>

KeySpec == KeyInit /\ [][NormalizeAddressKeyCalled]_vars

(***************************************************************************)
(* Vocabulary of the properties                                            *)
(***************************************************************************)

KeyOf(record) == normalizeAddressKey(record.address)

KeysOf(records) == { KeyOf(records[k]) : k \in 1..Len(records) }

\* The records the file tasks of the call have accepted so far, in file order.
AcceptedSoFar == Concat([t \in 1..Len(tasks) |-> tasks[t].fileAddresses])

PairwiseDistinct(values) ==
  \A i, j \in 1..Len(values) : i # j => values[i] # values[j]

\* The cell of column name holds no text: it is absent, empty or white space
\* only.
CellIsBlank(row, name) ==
  name \notin DOMAIN row
    \/ \A c \in 1..Len(String(row[name])) : String(row[name])[c] \in WhiteSpace

\* No address text under any address alias.
IsBlankRow(row) ==
  \A n \in 1..Len(FIELD_MAPPINGS.address) : CellIsBlank(row, FIELD_MAPPINGS.address[n])

\* The address text of a row that has one: the text under the first alias,
\* in priority order, whose cell holds text.
AddressTextOf(row) ==
  LET n == CHOOSE m \in 1..Len(FIELD_MAPPINGS.address) :
             /\ ~CellIsBlank(row, FIELD_MAPPINGS.address[m])
             /\ \A l \in 1..(m - 1) : CellIsBlank(row, FIELD_MAPPINGS.address[l])
  IN String(row[FIELD_MAPPINGS.address[n]])

RowKey(row) == normalizeAddressKey(AddressTextOf(row))

\* The rows of the call's files, as <<task, row number>>, rows numbered from 1.
CallRows ==
  UNION { { <<t, k>> : k \in 1..Len(Files[files[t]].rows) } : t \in 1..Len(files) }

RowAt(p) == Files[files[p[1]]].rows[p[2]]

NonBlankCallRows == { p \in CallRows : ~IsBlankRow(RowAt(p)) }

\* File order, then row order.
Before(p, q) == p[1] < q[1] \/ (p[1] = q[1] /\ p[2] < q[2])

\* The rows task t has gone through.
RowsDone(t) ==
  LET n == Len(Files[files[t]].rows)
  IN CASE tasks[t].pc = "timer" -> Min(tasks[t].i + CHUNK_SIZE, n)
       [] tasks[t].pc = "done" -> n
       [] OTHER -> 0

(***************************************************************************)
(* C1.  Within one importExcelFiles call, under every interleaving of the  *)
(* file tasks at their suspension points, no two accepted records have the *)
(* same normalized address key, and no accepted record has the key of a    *)
(* record of the existing collection passed in.                            *)
(***************************************************************************)
C1_AcceptedKeysDistinct ==
  /\ PairwiseDistinct([k \in 1..Len(AcceptedSoFar) |-> KeyOf(AcceptedSoFar[k])])
  /\ \A k \in 1..Len(AcceptedSoFar) : KeyOf(AcceptedSoFar[k]) \notin KeysOf(existing)

\* Two files with a shared address were imported against a collection that
\* is not empty: a row was skipped and a record accepted.
C1_Witness ==
  /\ callStatus = "resolved"
  /\ Len(files) = 2
  /\ existing # <<>>
  /\ outcome.duplicatesSkipped > 0
  /\ outcome.newAddresses # <<>>
  /\ \E p, q \in NonBlankCallRows : p[1] # q[1] /\ RowKey(RowAt(p)) = RowKey(RowAt(q))

(***************************************************************************)
(* C2.  Among all rows of one import call whose address text normalizes to *)
(* the same key, only the first one by file order, then row order, is      *)
(* accepted, and every later one increments the duplicate counter, also    *)
(* when several files are imported in the same call.                       *)
(***************************************************************************)
C2_FirstByFileOrderAccepted ==
  callStatus = "resolved" =>
    /\ \A t \in 1..Len(tasks) : \A k \in 1..Len(tasks[t].fileAddresses) :
         LET record == tasks[t].fileAddresses[k]
             sameKey == { p \in NonBlankCallRows : RowKey(RowAt(p)) = KeyOf(record) }
             first == CHOOSE p \in sameKey : \A q \in sameKey : q = p \/ Before(p, q)
         IN first[1] = t /\ record.address = AddressTextOf(RowAt(first))
    /\ outcome.duplicatesSkipped =
         Cardinality(NonBlankCallRows) - Len(outcome.newAddresses)

(***************************************************************************)
(* C3.  After any sequence of import calls whose results are merged into   *)
(* the in-memory collection, all records of the collection have pairwise   *)
(* distinct ids (id = the call's start time in milliseconds + fileIndex *  *)
(* 1,000,000 + the number of records already accepted from that file).     *)
(***************************************************************************)
C3_CollectionIdsDistinct ==
  PairwiseDistinct([k \in 1..Len(addresses) |-> addresses[k].id])

(***************************************************************************)
(* C5.  Importing the single file with the rows 'Hauptstraße 1, 4541,      *)
(* Adlwang' and 'hauptstraße   1,4541,adlwang' against an empty collection *)
(* yields exactly 1 accepted record, totalProcessed = 2 and                *)
(* duplicatesSkipped = 1.                                                  *)
(***************************************************************************)
C5_ScenarioOneAccepted ==
  (callStatus = "resolved" /\ files = <<"scenario">> /\ existing = <<>>) =>
    /\ Len(outcome.newAddresses) = 1
    /\ outcome.totalProcessed = 2
    /\ outcome.duplicatesSkipped = 1

(***************************************************************************)
(* C6.  For one import call, a row whose key is already in the existing    *)
(* collection is counted as a duplicate and never accepted, and every key  *)
(* of a non-blank row that is not in the existing collection is accepted   *)
(* exactly once: the keys of the accepted records are the keys of the      *)
(* non-blank rows minus the keys of the existing collection.               *)
(***************************************************************************)
C6_AcceptedKeysAreNewKeys ==
  callStatus = "resolved" =>
    LET rowKeys == { RowKey(RowAt(p)) : p \in NonBlankCallRows }
        newKeys == rowKeys \ KeysOf(existing)
    IN /\ KeysOf(outcome.newAddresses) = newKeys
       /\ Len(outcome.newAddresses) = Cardinality(newKeys)
       /\ outcome.duplicatesSkipped >=
            Cardinality({ p \in NonBlankCallRows : RowKey(RowAt(p)) \in KeysOf(existing) })

\* A re-import: one row's address is already in the collection and is
\* skipped, another row's address is new and is accepted.
C6_Witness ==
  /\ callStatus = "resolved"
  /\ \E p \in NonBlankCallRows : RowKey(RowAt(p)) \in KeysOf(existing)
  /\ outcome.newAddresses # <<>>
  /\ outcome.duplicatesSkipped > 0

(***************************************************************************)
(* C7.  A row whose address text is absent, empty or white space only      *)
(* under every address alias is never accepted, never increments the       *)
(* duplicate counter and never adds a key to the duplicate checker; it is  *)
(* still counted in totalProcessed.                                        *)
(***************************************************************************)
C7_BlankRowsOnlyCounted ==
  /\ \A t \in 1..Len(tasks) :
       LET done == { p \in NonBlankCallRows : p[1] = t /\ p[2] <= RowsDone(t) }
       IN /\ Len(tasks[t].fileAddresses) + tasks[t].fileDuplicates = Cardinality(done)
          /\ \A k \in 1..Len(tasks[t].fileAddresses) :
               \E c \in 1..Len(tasks[t].fileAddresses[k].address) :
                 tasks[t].fileAddresses[k].address[c] \notin WhiteSpace
  /\ batchKeys = KeysOf(AcceptedSoFar)
  /\ callStatus = "resolved" => outcome.totalProcessed = Cardinality(CallRows)

\* An import with a blank row has resolved: the row is in totalProcessed
\* and in neither of the other two counts.
C7_Witness ==
  /\ callStatus = "resolved"
  /\ \E p \in CallRows : IsBlankRow(RowAt(p))
  /\ outcome.totalProcessed > Len(outcome.newAddresses) + outcome.duplicatesSkipped
  /\ outcome.newAddresses # <<>>

(***************************************************************************)
(* C8.  If decoding any one file of an import call fails, the whole call   *)
(* rejects with an error and nothing is merged: the failing step and every *)
(* later step of the call's tasks leave the collection as it is, also when *)
(* other files of the call had already produced accepted records, and the  *)
(* reported statistics show an error and 0 imported.                       *)
(***************************************************************************)
C8_FailedImportMergesNothing ==
  /\ [](/\ (\E t \in 1..Len(tasks) : tasks[t].pc = "failed") => callStatus = "rejected"
        /\ callStatus = "resolved" => \A t \in 1..Len(files) : Files[files[t]].readable
        /\ callStatus = "rejected" =>
             /\ outcome.kind = "error"
             /\ importStats.kind = "error"
             /\ importStats.imported = 0
             /\ importStats.totalProcessed = 0
             /\ importStats.duplicatesSkipped = 0)
  /\ [][(callStatus' = "rejected" /\ nEdits' = nEdits) => addresses' = addresses]_vars

\* One file failed to decode after another file of the call had produced
\* accepted records.
C8_Witness ==
  /\ callStatus = "rejected"
  /\ \E t \in 1..Len(tasks) : tasks[t].pc = "failed"
  /\ \E t \in 1..Len(tasks) : tasks[t].fileAddresses # <<>>
  /\ importStats.kind = "error"

(***************************************************************************)
(* C9.  importExcelFiles never adds, removes or changes a record of the    *)
(* existing collection it is given, whether the call succeeds or fails;    *)
(* the collection changes only when the caller merges the returned         *)
(* records, and that merge keeps every record that is in the collection at *)
(* merge time, including edits made while the import was running.          *)
(***************************************************************************)
C9_OnlyTheMergeChangesTheCollection ==
  [][/\ nImports' = nImports => existing' = existing
     /\ (nEdits' = nEdits /\ ~(callStatus = "running" /\ callStatus' = "resolved"))
          => addresses' = addresses
     /\ (callStatus = "running" /\ callStatus' = "resolved")
          => addresses' = addresses \o outcome'.newAddresses]_vars

\* A record was edited and the import that started before the edit has
\* merged its records behind it.
C9_Witness ==
  /\ callStatus = "resolved"
  /\ outcome.newAddresses # <<>>
  /\ Len(addresses) = Len(existing) + Len(outcome.newAddresses)
  /\ \E k \in 1..Len(existing) : addresses[k] # existing[k]

(***************************************************************************)
(* C10.  Round trip: for any non-empty collection in which every address   *)
(* text is unique after normalization, exporting it and importing the      *)
(* exported rows into an empty collection yields records equal to the      *)
(* originals in every field except id and the imported flag, the numeric   *)
(* fields and the tracking flags included.                                 *)
(***************************************************************************)

\* A file task run from row index i to the end of its rows, through all its
\* suspension points.
RECURSIVE RunToEnd(_, _, _, _, _, _)
RunToEnd(acc, rows, i, existingKeys, base, fileIndex) ==
  With(RunLoop(acc, rows, i, existingKeys, base, fileIndex), LAMBDA run :
    IF run.suspended
      THEN RunToEnd(run.acc, rows, run.i + CHUNK_SIZE, existingKeys, base, fileIndex)
      ELSE run.acc)

\* The records importExcelFiles returns for one file with these rows and an
\* empty existing collection.
ImportedFrom(rows) ==
  RunToEnd([ fileAddresses |-> <<>>, fileDuplicates |-> 0, batchKeys |-> {},
             intCache |-> EmptyCache, floatCache |-> EmptyCache ],
           rows, 0, {}, 0, 0).fileAddresses

SameButIdAndImported(a, b) ==
  /\ DOMAIN a = DOMAIN b
  /\ \A f \in DOMAIN a \ {"id", "imported"} : a[f] = b[f]

C10_RoundTrip ==
  (download.made /\ PairwiseDistinct([k \in 1..Len(download.from) |-> KeyOf(download.from[k])])) =>
    \E back \in {ImportedFrom(download.rows)} :
      /\ Len(back) = Len(download.from)
      /\ \A k \in 1..Len(back) : SameButIdAndImported(back[k], download.from[k])

(***************************************************************************)
(* C4.  Within the output of one import call, the ids of the accepted      *)
(* records are pairwise distinct across all files and all rows, for any    *)
(* number of files and any number of accepted rows per file: no two runs   *)
(* of ids given out by the call's file tasks share an id.                  *)
(***************************************************************************)
C4_IdsDistinctWithinCall ==
  \A p, q \in 1..Len(idCall.runs) :
    p # q => \/ idCall.runs[p].last < idCall.runs[q].first
             \/ idCall.runs[q].last < idCall.runs[p].first

(***************************************************************************)
(* C11.  During import each file task yields control after every chunk of  *)
(* CHUNK_SIZE rows: no step of a file task goes through more rows than one *)
(* chunk, so no two consecutive chunks of a file are processed without a   *)
(* suspension point between them.                                          *)
(***************************************************************************)
C11_YieldAfterEveryChunk ==
  [][nImports' = nImports =>
       \A t \in 1..Len(tasks) : RowsDone(t)' - RowsDone(t) <= CHUNK_SIZE]_vars

(***************************************************************************)
(* C12.  Under any sequence of imports, successful or failed, and user     *)
(* edits, no record is ever removed from the in-memory collection: in      *)
(* every step its length does not decrease and every record stays at its   *)
(* place with the same id and the same address text.                       *)
(***************************************************************************)
C12_RecordsNeverRemoved ==
  [][/\ Len(addresses') >= Len(addresses)
     /\ \A k \in 1..Len(addresses) :
          /\ addresses'[k].id = addresses[k].id
          /\ addresses'[k].address = addresses[k].address]_vars

\* A second import has failed after a first one was merged and a record
\* was edited.
C12_Witness ==
  /\ callStatus = "rejected"
  /\ addresses # <<>>
  /\ nEdits > 0
  /\ \E k \in 1..Len(addresses) : addresses[k].notes = <<"o", "k">>

(***************************************************************************)
(* C13.  After any sequence of imports started through the user interface, *)
(* interleaved with user edits, no two records of the in-memory collection *)
(* have the same normalized address key.                                   *)
(***************************************************************************)
C13_CollectionKeysDistinct ==
  PairwiseDistinct([k \in 1..Len(addresses) |-> KeyOf(addresses[k])])

\* A second import was merged into a collection that held an edited record
\* of the first; one of its rows had the key of an earlier record.
C13_Witness ==
  /\ nImports = 2
  /\ callStatus = "resolved"
  /\ existing # <<>>
  /\ nEdits > 0
  /\ outcome.duplicatesSkipped > 0
  /\ Len(addresses) > Len(existing)
  /\ \E p \in NonBlankCallRows : RowKey(RowAt(p)) \in KeysOf(existing)

(***************************************************************************)
(* C14.  saveDataToCSVNativeOrWeb with a non-empty collection.  On a       *)
(* native host that has both plugins: if a step of the native path fails,  *)
(* webFallback is invoked exactly once and the call rejects only if        *)
(* webFallback fails too; if the native path succeeds, webFallback is not  *)
(* invoked.  On a host that is not native or lacks a plugin, webFallback   *)
(* is invoked exactly once and no step of the native path is attempted.    *)
(***************************************************************************)

\* The Capacitor runtime is there and reports a native platform.
NativeHost(host) ==
  /\ host.capacitor
  /\ \/ host.isNativePlatform = "true"
     \/ host.isNativePlatform = "absent" /\ host.platform \in {"ios", "android"}

C14_FallbackExactlyOnce ==
  /\ save.pc # "none" => save.webCalls <= 1
  /\ (save.pc = "settled" /\ save.length > 0) =>
       IF NativeHost(save.host) /\ save.host.filesystem /\ save.host.share
         THEN IF save.nativeFailed
                THEN /\ save.webCalls = 1
                     /\ save.result = "rejected" <=> save.webFailed
              ELSE /\ save.webCalls = 0
                   /\ save.steps = NativeSteps
                   /\ save.result = "resolved"
       ELSE /\ save.webCalls = 1
            /\ save.steps = <<>>
            /\ save.result = "rejected" <=> save.webFailed

\* On a native host with both plugins the share step failed and the web
\* fallback then succeeded.
C14_Witness ==
  /\ save.pc = "settled"
  /\ NativeHost(save.host) /\ save.host.filesystem /\ save.host.share
  /\ save.steps = NativeSteps
  /\ save.nativeFailed
  /\ save.webCalls = 1
  /\ save.result = "resolved"

(***************************************************************************)
(* C16.  getFieldValue(row, aliases) returns the value of the first alias, *)
(* in list order, whose cell is present and non-blank after trimming, and  *)
(* the empty string when no alias has such a cell.                         *)
(***************************************************************************)
C16_FirstNonBlankAlias ==
  call.fn = "getFieldValue" =>
    LET names == call.fieldNames
        good == { n \in 1..Len(names) : ~CellIsBlank(call.row, names[n]) }
    IN IF good = {} THEN call.result = <<>>
       ELSE \E n \in good :
              /\ \A m \in good : n <= m
              /\ call.result = String(call.row[names[n]])

\* The first alias is there but blank and the second holds text: the text
\* of the second is returned, untrimmed.
C16_Witness ==
  /\ call.fn = "getFieldValue"
  /\ Len(call.fieldNames) = 2
  /\ call.fieldNames[1] \in DOMAIN call.row
  /\ CellIsBlank(call.row, call.fieldNames[1])
  /\ call.result = <<" ", "x", " ">>

\* A cell value no number can be read from: a missing cell, or a value
\* whose text holds no digit at all.
HoldsNoDigit(value) ==
  \/ value = Absent
  \/ \A i \in 1..Len(String(value)) : ~IsDigit(String(value)[i])

(***************************************************************************)
(* C15.  Whatever a numeric cell holds (a missing cell, any text, a        *)
(* boolean, a native number, NaN or an infinity), the record built from    *)
(* the row has finite homes, contractStatus and price, and so has every    *)
(* result of the two coercers; a value no number can be read from gives 0. *)
(***************************************************************************)
C15_ImportedNumbersFinite ==
  /\ call.fn \in {"safeParseInt", "safeParseFloat"} =>
       /\ \A k \in 1..Len(call.results) : IsFiniteNumber(call.results[k])
       /\ HoldsNoDigit(call.value) => \A k \in 1..Len(call.results) : call.results[k] = 0
  /\ call.fn = "createAddress" =>
       \A k \in 1..Len(call.results) :
         LET a == call.results[k]
         IN /\ IsFiniteNumber(a.homes)
            /\ IsFiniteNumber(a.contractStatus)
            /\ IsFiniteNumber(a.price)
            /\ HoldsNoDigit(call.value) =>
                 a.homes = 0 /\ a.contractStatus = 0 /\ a.price = 0

\* A row whose numeric cells hold a non-finite native number was turned
\* into a record twice, the second time through the filled caches.
C15_Witness ==
  /\ call.fn = "createAddress"
  /\ call.value = Num(NonFiniteNumber)
  /\ Len(call.results) = MaxCalls
  /\ call.intCache # <<>>
  /\ call.results[MaxCalls].homes = 0
  /\ call.results[MaxCalls].price = 0

\* The cell value is a finite native number.
IsFiniteNative(value) == value.t = "n" /\ IsFiniteNumber(value.m)

\* Every later result of a run of calls equals the first one.
ResultsAgree == \A k \in 1..Len(call.results) : call.results[k] = call.results[1]

(***************************************************************************)
(* C17, as stated.  For the integer and for the float variant, coercing a  *)
(* finite native number returns that number unchanged, and coercing the    *)
(* result of a coercion returns the same result.                           *)
(***************************************************************************)
C17_NativeNumberUnchanged ==
  /\ call.fn = "safeParseInt" /\ call.results # <<>> =>
       /\ IsFiniteNative(call.value) => call.results[1] * 1000 = call.value.m
       /\ ResultsAgree
  /\ call.fn = "safeParseFloat" /\ call.results # <<>> =>
       /\ IsFiniteNative(call.value) => call.results[1] = call.value.m
       /\ ResultsAgree

(***************************************************************************)
(* C17, amended.  Coercing the result of a coercion returns the same       *)
(* result, for both variants and every input; the float variant returns a  *)
(* finite native number unchanged, and the integer variant returns it      *)
(* truncated toward zero, so unchanged when it is a whole number.          *)
(***************************************************************************)
C17_CoercionIdempotent ==
  /\ call.fn = "safeParseInt" /\ call.results # <<>> =>
       /\ IsFiniteNative(call.value) =>
            /\ call.results[1] * 1000 <= call.value.m \/ call.value.m < 0
            /\ call.results[1] * 1000 >= call.value.m \/ call.value.m > 0
            /\ call.results[1] * 1000 - call.value.m \in -999..999
       /\ ResultsAgree
  /\ call.fn = "safeParseFloat" /\ call.results # <<>> =>
       /\ IsFiniteNative(call.value) => call.results[1] = call.value.m
       /\ ResultsAgree

\* The native number 12.7 went through the integer variant twice.
C17_Witness ==
  /\ call.fn = "safeParseInt"
  /\ call.value = Num(12700)
  /\ call.results = <<12, 12>>

\* The file has no first worksheet, or its worksheet has no data row.
HasNoRows(file) == file.readable /\ (~file.sheet \/ file.rows = <<>>)

\* The tasks of the call whose files have rows or cannot be read.
OtherTasks == { t \in 1..Len(tasks) : ~HasNoRows(Files[files[t]]) }

(***************************************************************************)
(* C18.  A file whose first worksheet is missing, or whose worksheet has   *)
(* zero data rows, contributes 0 accepted records, 0 processed rows and 0  *)
(* duplicates and does not make the call fail: its task ends without a     *)
(* failure, the call rejects only when another file fails, and a resolved  *)
(* call returns exactly what the other files contributed.                  *)
(***************************************************************************)
C18_FileWithoutRowsContributesNothing ==
  /\ \A t \in 1..Len(tasks) :
       HasNoRows(Files[files[t]]) =>
         /\ tasks[t].pc \in {"read", "done"}
         /\ tasks[t].fileAddresses = <<>>
         /\ tasks[t].processed = 0
         /\ tasks[t].fileDuplicates = 0
  /\ callStatus = "rejected" => \E t \in OtherTasks : tasks[t].pc = "failed"
  /\ (callStatus = "running" /\ \A t \in OtherTasks : tasks[t].pc = "done") =>
       \E t \in 1..Len(tasks) : tasks[t].pc = "read"
  /\ callStatus = "resolved" =>
       /\ outcome.totalProcessed = Sum([t \in 1..Len(tasks) |->
                                         IF t \in OtherTasks THEN Len(Files[files[t]].rows)
                                         ELSE 0])
       /\ outcome.duplicatesSkipped = Sum([t \in 1..Len(tasks) |->
                                            IF t \in OtherTasks THEN tasks[t].fileDuplicates
                                            ELSE 0])
       /\ outcome.newAddresses = Concat([t \in 1..Len(tasks) |->
                                          IF t \in OtherTasks THEN tasks[t].fileAddresses
                                          ELSE <<>>])

\* A call with a file without worksheet, a file without rows and a file of
\* one row has resolved with that one row accepted.
C18_Witness ==
  /\ callStatus = "resolved"
  /\ \E t \in 1..Len(tasks) : ~Files[files[t]].sheet /\ tasks[t].pc = "done"
  /\ \E t \in 1..Len(tasks) :
       Files[files[t]].sheet /\ Files[files[t]].rows = <<>> /\ tasks[t].pc = "done"
  /\ outcome.totalProcessed = 1
  /\ Len(outcome.newAddresses) = 1
  /\ addresses # <<>>

\* The first alias of every import mapping.
PrimaryAliases == { FIELD_MAPPINGS[f][1] : f \in DOMAIN FIELD_MAPPINGS }

(***************************************************************************)
(* C19.  The export produces exactly one row per record, in collection     *)
(* order, for every collection length: the chunk loop writes every row     *)
(* index exactly once, and every row has the 17 canonical column headers,  *)
(* which are the first aliases of the import mappings.                     *)
(***************************************************************************)
C19_OneRowPerRecord ==
  /\ Cardinality(PrimaryAliases) = 17
  /\ { EXPORT_COLUMNS[c] : c \in 1..Len(EXPORT_COLUMNS) } = PrimaryAliases
  /\ call.fn = "exportCSVWeb" /\ call.pc = "downloaded" =>
       /\ \A k \in 1..Len(call.records) : call.writes[k] = 1
       /\ Len(call.rows) = Len(call.records)
       /\ \A k \in 1..Len(call.records) :
            /\ DOMAIN call.rows[k] = PrimaryAliases
            /\ call.rows[k][FIELD_MAPPINGS.address[1]] = Str(call.records[k].address)

\* A collection of one record more than two chunks has been exported.
C19_Witness ==
  /\ call.fn = "exportCSVWeb"
  /\ call.pc = "downloaded"
  /\ Len(call.records) = 2 * EXPORT_CHUNK_SIZE + 1
  /\ Len(call.rows) = 2 * EXPORT_CHUNK_SIZE + 1
  /\ call.i = 3 * EXPORT_CHUNK_SIZE

\* The first alias of the field is a column of the row and blank, and the
\* second alias holds a value.
PrimaryBlankSecondaryHolds(row, field) ==
  /\ FIELD_MAPPINGS[field][1] \in DOMAIN row
  /\ CellIsBlank(row, FIELD_MAPPINGS[field][1])
  /\ ~CellIsBlank(row, FIELD_MAPPINGS[field][2])

\* The number the second alias of the field holds in the row.
SecondaryNumber(row, field) ==
  IF field = "price"
    THEN safeParseFloat(row[FIELD_MAPPINGS[field][2]], 0, EmptyCache).out
  ELSE safeParseInt(row[FIELD_MAPPINGS[field][2]], 0, EmptyCache).out

(***************************************************************************)
(* C20.  The numeric fields homes, price and contractStatus take their     *)
(* value from the first alias whose cell is present and non-blank: a       *)
(* record accepted from a row whose primary column is present but blank    *)
(* and whose secondary column holds a number has the secondary's number.   *)
(***************************************************************************)
C20_NumberFromFirstNonBlankAlias ==
  \A k \in 1..Len(AcceptedSoFar) :
    \A p \in NonBlankCallRows :
      AddressTextOf(RowAt(p)) = AcceptedSoFar[k].address =>
        \A field \in {"homes", "price", "contractStatus"} :
          PrimaryBlankSecondaryHolds(RowAt(p), field) =>
            AcceptedSoFar[k][field] = SecondaryNumber(RowAt(p), field)

(***************************************************************************)
(* C21.  The memoizing caches never change a result: in any run of         *)
(* safeParseInt and safeParseFloat calls with any values and fallbacks,    *)
(* each call returns what it returns on empty caches, the caller's own     *)
(* fallback when the value is no finite number.                            *)
(***************************************************************************)
C21_CacheNeverChangesResult ==
  /\ call.fn = "cached" /\ call.last.variant = "int" =>
       call.last.out = safeParseInt(call.last.value, call.last.fallback, EmptyCache).out
  /\ call.fn = "cached" /\ call.last.variant = "float" =>
       call.last.out = safeParseFloat(call.last.value, call.last.fallback, EmptyCache).out

(***************************************************************************)
(* C22.  Once an importExcelFiles call has resolved or rejected, both      *)
(* parse caches are empty, and they stay empty until the next call starts, *)
(* also when one file failed to decode while other files of the call were  *)
(* still being processed.                                                  *)
(***************************************************************************)
C22_CachesEmptyAfterCall ==
  callStatus \in {"resolved", "rejected"} =>
    parseIntCache = EmptyCache /\ parseFloatCache = EmptyCache

(***************************************************************************)
(* C23.  Every import call eventually settles, resolving or rejecting,     *)
(* provided every pending timer callback is eventually run and every file  *)
(* read completes; each file task goes through every row of its file       *)
(* exactly once, in row order.                                             *)
(***************************************************************************)
C23_ImportSettles ==
  /\ [](call.fn = "importExcelFiles" =>
         \A t \in 1..Len(call.tasks) :
           call.tasks[t].pc = "done" =>
             call.tasks[t].visited = [k \in 1..call.files[t].length |-> k - 1])
  /\ (call.fn = "importExcelFiles" /\ call.status = "running")
       ~> (call.status \in {"resolved", "rejected"})

\* A call of two files has resolved, one of its tasks after a suspension
\* point and a chunk that no suspension point follows.
C23_Witness ==
  /\ call.fn = "importExcelFiles"
  /\ call.status = "resolved"
  /\ Len(call.tasks) = 2
  /\ \E t \in 1..Len(call.tasks) :
       /\ call.files[t].length = 2 * CHUNK_SIZE + 1
       /\ Len(call.tasks[t].visited) = 2 * CHUNK_SIZE + 1

(***************************************************************************)
(* C24.  For every record, the row the native exporter builds equals the   *)
(* row the web exporter builds: the same 17 column names in the same       *)
(* order with the same values, so the file written on either path holds    *)
(* the same rows for the importer.                                         *)
(***************************************************************************)
C24_NativeRowsEqualWebRows ==
  /\ NATIVE_COLUMNS = EXPORT_COLUMNS
  /\ \A k \in 1..Len(addresses) :
       /\ nativeRow(addresses[k]) = exportRow(addresses[k])
       /\ nativeRow(addresses[k]) = exportRowOrZero(addresses[k])
  /\ download.made =>
       download.rows = csvRows(transformAddressesToCSV(download.from))

\* A collection with a record of non-zero homes, a fractional price and a
\* finished construction, and one without them, has been exported.
C24_Witness ==
  /\ download.made
  /\ \E k \in 1..Len(download.from) :
       /\ download.from[k].homes > 0
       /\ download.from[k].price % 1000 # 0
       /\ download.from[k].completionDone
  /\ \E k \in 1..Len(download.from) :
       /\ download.from[k].homes = 0
       /\ ~download.from[k].completionDone

(***************************************************************************)
(* C25.  isNativeCapacitor never returns a detection result older than     *)
(* CACHE_DURATION: in any run of isNativeCapacitor, getPlatform and        *)
(* clearNativeCaches calls at non-decreasing times, a value returned from  *)
(* the cache was detected less than CACHE_DURATION before the call that    *)
(* returns it.                                                             *)
(***************************************************************************)
C25_NoStaleDetection ==
  (call.fn = "platform" /\ call.last.op = "isNativeCapacitor" /\ call.last.cached) =>
    call.time - call.detectedAt < CACHE_DURATION

\* The records at position k before and after a step differ at most in the
\* fields of one patch of the row components.
OnlyPatchedFieldChanged(k) ==
  \E patch \in Patches :
    /\ addresses'[k] = ApplyPatch(addresses[k], patch)
    /\ \A f \in DOMAIN addresses[k] \ DOMAIN patch : addresses'[k][f] = addresses[k][f]

(***************************************************************************)
(* C26.  updateAddress(id, patch), as invoked by the note editor and the   *)
(* tracking checkboxes, changes exactly one record of the collection, the  *)
(* edited one, and only the patched field of it: all other records, the    *)
(* order and the length of the collection are unchanged, in every          *)
(* collection reachable by any sequence of imports.                        *)
(***************************************************************************)
C26_UpdateChangesOneRecord ==
  [][nEdits' # nEdits =>
       /\ Len(addresses') = Len(addresses)
       /\ \E k \in 1..Len(addresses) :
            /\ OnlyPatchedFieldChanged(k)
            /\ \A j \in 1..Len(addresses) \ {k} : addresses'[j] = addresses[j]]_vars

\* The keys of the call's rows that the existing collection does not hold.
NewCallKeys == { RowKey(RowAt(p)) : p \in NonBlankCallRows } \ KeysOf(existing)

(***************************************************************************)
(* C27.  For fixed files and a fixed existing collection the result counts *)
(* of an import call are the same under every interleaving of the file     *)
(* tasks: in whatever order file reads complete and timers fire, a         *)
(* resolved call reports the number of accepted records, totalProcessed    *)
(* and duplicatesSkipped that the files and the existing collection alone  *)
(* determine.                                                              *)
(***************************************************************************)
C27_CountsIndependentOfInterleaving ==
  callStatus = "resolved" =>
    /\ Len(outcome.newAddresses) = Cardinality(NewCallKeys)
    /\ outcome.totalProcessed = Sum([t \in 1..Len(files) |-> Len(Files[files[t]].rows)])
    /\ outcome.duplicatesSkipped = Cardinality(NonBlankCallRows) - Cardinality(NewCallKeys)

\* A call has resolved in which the task of the second file won a key that
\* the first file holds too: the tasks did not run in file order.
C27_Witness ==
  /\ callStatus = "resolved"
  /\ Len(files) = 2
  /\ \E k \in 1..Len(tasks[2].fileAddresses) :
       \E p \in NonBlankCallRows : p[1] = 1 /\ RowKey(RowAt(p)) = KeyOf(tasks[2].fileAddresses[k])
  /\ tasks[1].fileDuplicates > 0

\* The rows of file t without address text.
BlankRowsOf(t) == { p \in CallRows : p[1] = t /\ IsBlankRow(RowAt(p)) }

(***************************************************************************)
(* C28.  For every import call that resolves, totalProcessed = the number  *)
(* of accepted records + duplicatesSkipped + the number of rows with blank *)
(* address text, for every file of the call and summed over all its files. *)
(***************************************************************************)
C28_ProcessedIsSumOfOutcomes ==
  callStatus = "resolved" =>
    /\ \A t \in 1..Len(tasks) :
         tasks[t].processed =
           Len(tasks[t].fileAddresses) + tasks[t].fileDuplicates + Cardinality(BlankRowsOf(t))
    /\ outcome.totalProcessed =
         Len(outcome.newAddresses) + outcome.duplicatesSkipped
           + Cardinality(CallRows \ NonBlankCallRows)

\* A call of two files with accepted rows, duplicate rows and more than two
\* chunks of blank rows has resolved.
C28_Witness ==
  /\ callStatus = "resolved"
  /\ Len(files) = 2
  /\ outcome.newAddresses # <<>>
  /\ outcome.duplicatesSkipped > 0
  /\ Cardinality(CallRows \ NonBlankCallRows) > 2 * CHUNK_SIZE
  /\ BlankRowsOf(2) # {}

(***************************************************************************)
(* C29.  normalizeAddressKey is idempotent: normalizing a key that is      *)
(* itself a result of normalizeAddressKey returns it unchanged, for every  *)
(* address text, texts with white space on both sides of a stripped        *)
(* punctuation character included.                                         *)
(***************************************************************************)
C29_KeyIdempotent ==
  (call.fn = "normalizeAddressKey" /\ Len(call.keys) >= 2) =>
    \A n \in 2..Len(call.keys) : call.keys[n] = call.keys[n - 1]

(***************************************************************************)
(* C30.  Every import started through the user interface sets isImporting  *)
(* to true before any file is read, keeps it true while the call runs and  *)
(* eventually sets it back to false, when the import succeeds and when it  *)
(* fails; after it has ended, importStats holds either the counts of the   *)
(* result or an error with all counts 0.                                   *)
(***************************************************************************)
C30_ImportingFlagAndStats ==
  /\ [](call.fn = "onExcelChosen" =>
         /\ call.pc = "idle" => call.tasks = <<>>
         /\ (\E t \in 1..Len(call.tasks) : call.tasks[t].pc = "read") =>
              \/ call.isImporting
              \/ call.status = "rejected"
         /\ call.status = "running" => call.isImporting
         /\ call.pc = "ended" =>
              /\ ~call.isImporting
              /\ \/ /\ call.status = "resolved"
                    /\ call.importStats = ResultStats(call, call.result)
                    /\ call.importStats.totalProcessed =
                         Sum([t \in 1..Len(call.files) |-> Len(call.tasks[t].visited)])
                 \/ /\ call.status = "rejected"
                    /\ call.importStats.kind = "error"
                    /\ call.importStats.totalProcessed = 0
                    /\ call.importStats.imported = 0
                    /\ call.importStats.duplicatesSkipped = 0)
  /\ (call.fn = "onExcelChosen" /\ call.isImporting) ~> (call.pc = "ended" /\ ~call.isImporting)

\* An import through the handler with the progress simulation has ended
\* with more than a chunk of records accepted and rows skipped.
C30_Witness ==
  /\ call.fn = "onExcelChosen"
  /\ call.pc = "ended"
  /\ ~call.delayedOff
  /\ call.status = "resolved"
  /\ call.importStats.imported > CHUNK_SIZE
  /\ call.importStats.duplicatesSkipped > 0

====
